---- MODULE Spec2Model ----
(***************************************************************************)
(* The layout subsystem of the SmartArt diagram library:                   *)
(*   LayoutManager (engine dispatch, bounds, centering),                   *)
(*   DagreLayoutEngine / ElkJSLayoutEngine (wrappers of external solvers), *)
(*   CustomLayoutEngine (force, circular, tree, grid, organic),            *)
(*   AutoLayoutManager (engine selection, debounced and forced layout,     *)
(*   subscribers).                                                         *)
(*                                                                         *)
(*   GeometryUtils.getLineIntersection, and the useUndoRedo hook.          *)
(*                                                                         *)
(* Spec runs one layout call on one diagram; AutoSpec follows one          *)
(* AutoLayoutManager through calls, clock ticks and timeouts; TreeSpec     *)
(* runs treeLayout one pass of its loop at a time; GridSpec runs           *)
(* gridLayout on larger diagrams; GeoSpec runs getLineIntersection on a    *)
(* pair of segments; UndoSpec follows one useUndoRedo hook through calls   *)
(* and renders; ForceSpec runs the force-directed and organic layouts on   *)
(* nodes that start outside the safety bound.                              *)
(*                                                                         *)
(* JavaScript objects are modelled with identity: node objects live in     *)
(* nodeHeap, arrays of node references in arrHeap, diagram data objects in *)
(* dataHeap.  A reference is an index into its heap.  `{...node, position}`*)
(* allocates a node object, `nodes.map` and `[...nodes]` allocate an array,*)
(* `node.position.x = v` updates a node object in place.                   *)
(*                                                                         *)
(* Coordinates are integers.  The trigonometric and square-root steps of   *)
(* the custom engine are computed in fixed point (see Cos1000, ISqrt).     *)
(***************************************************************************)
EXTENDS Integers, Sequences, FiniteSets, TLC

VARIABLES
  nodeHeap,       \* Seq of node objects [id, x, y, w, h]
  arrHeap,        \* Seq of arrays, each a Seq of node references
  dataHeap,       \* Seq of SmartDiagramData objects [nodes, edges, layout, updatedAt]
  pc,             \* "idle" | "elk-await" | "tree-loop" | "done"
  call,           \* the call in progress or just finished
  ret,            \* what the call returned to its caller
  pre,            \* the heaps as they were when the call was made
  engineLog,      \* what reached an engine and its solver during the call
  debounceTimer,  \* AutoLayoutManager.debounceTimer: a timeout handle or Null
  listeners,      \* AutoLayoutManager.listeners
  notified,       \* callbacks invoked so far, with the data each received
  managerOptions, \* AutoLayoutManager.options
  timers,         \* the timeouts pending in the runtime: [id, due, data]
  now,            \* the clock, in milliseconds
  computed,       \* the runs of AutoLayoutManager.applyLayout so far
  hist,           \* what has been asked of the manager so far
  tree,           \* the locals of a running treeLayout: queue, visited, ...
  geo,            \* a call of GeometryUtils: its arguments and what it returned
  undoRedo        \* useUndoRedo: history, skipRecording, pending state updates

managerVars ==
  <<debounceTimer, listeners, notified, managerOptions, timers, now, computed, hist>>

hookVars == <<geo, undoRedo>>

vars == <<nodeHeap, arrHeap, dataHeap, pc, call, ret, pre, engineLog,
          debounceTimer, listeners, notified, managerOptions, timers, now, computed, hist,
          tree, geo, undoRedo>>

----------------------------------------------------------------------------
(* Bounds of the model *)

MaxNodes == 3

\* AutoLayoutManager: calls made to one manager, callbacks subscribed at a
\* time, and the clock (it advances by TickMs up to MaxTime).
MaxCalls == 3
MaxListeners == 2
TickMs == 150
MaxTime == 450

\* Nodes of a diagram laid out on a grid.
MaxGridNodes == 10

\* GeometryUtils: segment end points have coordinates GeoUnit * (0..MaxCoord).
MaxCoord == 2

\* useUndoRedo: calls made to the functions the hook returns.
MaxHookCalls == 4

----------------------------------------------------------------------------
(* Generic helpers *)

Undefined == "<undefined>"
Null == [k |-> "null"]

Min2(a, b) == IF a < b THEN a ELSE b
Max2(a, b) == IF a > b THEN a ELSE b

Range(s) == { s[i] : i \in 1..Len(s) }

RECURSIVE SeqMin(_)
SeqMin(s) == IF Len(s) = 1 THEN s[1] ELSE Min2(s[1], SeqMin(Tail(s)))

----------------------------------------------------------------------------
(* Types of src/unnamed/part_007 *)

DiagramTypes ==
  {"flowchart", "org-chart", "mind-map", "tree", "hierarchy", "process-diagram", "custom"}

Num(v) == [t |-> "number", v |-> v]
Str(s) == [t |-> "string", s |-> s]
Undef == [t |-> "undefined"]

Spacing(h, v, n) == [t |-> "object", horizontal |-> h, vertical |-> v, node |-> n]

LayoutConfig(type, direction, spacing) ==
  [type |-> type, direction |-> direction, spacing |-> spacing]

----------------------------------------------------------------------------
(* Heap helpers *)

Node(id, x, y, w, h) == [id |-> id, x |-> x, y |-> y, w |-> w, h |-> h]

Keep == [keep |-> TRUE]
Fresh(node) == [keep |-> FALSE, node |-> node]

\* Number of freshly allocated objects among the first i entries of news.
RECURSIVE FreshUpTo(_, _)
FreshUpTo(news, i) ==
  IF i = 0 THEN 0
  ELSE FreshUpTo(news, i - 1) + (IF news[i].keep THEN 0 ELSE 1)

RECURSIVE FreshNodes(_)
FreshNodes(news) ==
  IF news = <<>> THEN <<>>
  ELSE (IF Head(news).keep THEN <<>> ELSE <<Head(news).node>>) \o FreshNodes(Tail(news))

\* `arr.map(f)`: news[i] is what f returned for arr[i], either the element
\* itself (Keep) or a newly created object.  Gives the node heap after the
\* allocations and the contents of the new array.
MapArray(nh, arr, news) ==
  [nh  |-> nh \o FreshNodes(news),
   arr |-> [i \in 1..Len(arr) |->
              IF news[i].keep THEN arr[i] ELSE Len(nh) + FreshUpTo(news, i)]]

Ids(nh, arr) == [i \in 1..Len(arr) |-> nh[arr[i]].id]
IdSet(nh, arr) == { nh[arr[i]].id : i \in 1..Len(arr) }

----------------------------------------------------------------------------
(* DagreLayoutEngine, src/unnamed/part_002 *)

Padding == 50

DagreDirection(direction) ==
  CASE direction \in {"top-bottom", "vertical"} -> "TB"
    [] direction = "bottom-top" -> "BT"
    [] direction \in {"left-right", "horizontal"} -> "LR"
    [] direction = "right-left" -> "RL"
    [] OTHER -> "TB"

\* edges.forEach(edge => graph.setEdge(edge.source, edge.target))
DagreEdges(edges) ==
  [i \in 1..Len(edges) |-> <<edges[i].source, edges[i].target>>]

\* The graph handed to dagre.layout, or the TypeError of reading
\* config.spacing.node when config.spacing is missing.
DagreGraph(nh, nodes, edges, config) ==
  IF config.spacing.t # "object" THEN [k |-> "throw"]
  ELSE [k       |-> "graph",
        rankdir |-> DagreDirection(config.direction),
        nodes   |-> Ids(nh, nodes),
        edges   |-> DagreEdges(edges)]

\* nodes.map(node => ({...node, position: {graphNode.x - w/2, graphNode.y - h/2}}))
DagreReadBack(nh, nodes, solved) ==
  [i \in 1..Len(nodes) |->
     LET n == nh[nodes[i]]
     IN  Fresh(Node(n.id, solved[n.id].x - (n.w \div 2), solved[n.id].y - (n.h \div 2),
                    n.w, n.h))]

\* layout(nodes, edges, config).  outcome is what dagre.layout did with the
\* graph: "throw", or the coordinates it wrote on every graph node.
DagreLayout(nh, ah, nodes, edges, config, outcome) ==
  LET graph == DagreGraph(nh, ah[nodes], edges, config)
  IN  IF graph.k = "throw"
      THEN [k |-> "throw", nh |-> nh, ah |-> ah, solver |-> Null]
      ELSE IF outcome.k = "throw"
      THEN [k |-> "throw", nh |-> nh, ah |-> ah, solver |-> graph]
      ELSE LET m == MapArray(nh, ah[nodes], DagreReadBack(nh, ah[nodes], outcome.at))
           IN  [k |-> "nodes", nh |-> m.nh, ah |-> Append(ah, m.arr),
                arr |-> Len(ah) + 1, solver |-> graph]

MinX(nh, arr) == SeqMin([i \in 1..Len(arr) |-> nh[arr[i]].x])
MinY(nh, arr) == SeqMin([i \in 1..Len(arr) |-> nh[arr[i]].y])

\* Mutant: the offset without the padding.
DagreGetBounds_NoPadding(nh, arr) ==
  IF Len(arr) = 0 THEN [x |-> 0, y |-> 0]
  ELSE [x |-> 0 - MinX(nh, arr), y |-> 0 - MinY(nh, arr)]

DagreGetBounds(nh, arr) ==
  IF Len(arr) = 0 THEN [x |-> 0, y |-> 0]
  ELSE [x |-> (0 - MinX(nh, arr)) + Padding, y |-> (0 - MinY(nh, arr)) + Padding]

----------------------------------------------------------------------------
(* ElkJSLayoutEngine, src/unnamed/part_001 lines 260-352 *)

getElkDirection(direction) ==
  CASE direction \in {"top-bottom", "vertical"} -> "DOWN"
    [] direction = "bottom-top" -> "UP"
    [] direction \in {"left-right", "horizontal"} -> "RIGHT"
    [] direction = "right-left" -> "LEFT"
    [] OTHER -> "DOWN"

\* edges.map(edge => ({id, sources: [edge.source], targets: [edge.target]}))
ElkEdges(edges) ==
  [i \in 1..Len(edges) |-> <<edges[i].source, edges[i].target>>]

\* The elkGraph literal; `.toString()` of a missing spacing field is a
\* TypeError raised before the try block.
ElkGraph(nh, nodes, edges, config) ==
  IF \/ config.spacing.t # "object"
     \/ config.spacing.node.t = "undefined"
     \/ config.spacing.vertical.t = "undefined"
  THEN [k |-> "throw"]
  ELSE [k       |-> "graph",
        rankdir |-> getElkDirection(config.direction),
        nodes   |-> Ids(nh, nodes),
        edges   |-> ElkEdges(edges)]

\* The body of the try block after `await elk.layout(elkGraph)` resolved with
\* children positioned as in solved (a child may be missing or carry no x/y).
ElkReadBack(nh, nodes, solved) ==
  [i \in 1..Len(nodes) |->
     LET n == nh[nodes[i]]
     IN  IF n.id \in DOMAIN solved
         THEN Fresh(Node(n.id, solved[n.id].x, solved[n.id].y, n.w, n.h))
         ELSE Keep]

\* Mutant: only the children the solver positioned are returned.
ElkSettle_DropsUnplaced(nh, ah, nodes, outcome) ==
  IF outcome.k = "throw"
  THEN [k |-> "nodes", nh |-> nh, ah |-> ah, arr |-> nodes]
  ELSE LET placed == SelectSeq(ah[nodes], LAMBDA r : nh[r].id \in DOMAIN outcome.at)
           m == MapArray(nh, placed, ElkReadBack(nh, placed, outcome.at))
       IN  [k |-> "nodes", nh |-> m.nh, ah |-> Append(ah, m.arr), arr |-> Len(ah) + 1]

\* What layout() resolves with once elk.layout has settled with outcome:
\* the catch block returns the array it was given.
ElkSettle(nh, ah, nodes, outcome) ==
  IF outcome.k = "throw"
  THEN [k |-> "nodes", nh |-> nh, ah |-> ah, arr |-> nodes]
  ELSE LET m == MapArray(nh, ah[nodes], ElkReadBack(nh, ah[nodes], outcome.at))
       IN  [k |-> "nodes", nh |-> m.nh, ah |-> Append(ah, m.arr), arr |-> Len(ah) + 1]

ElkGetBounds(nh, arr) ==
  IF Len(arr) = 0 THEN [x |-> 0, y |-> 0]
  ELSE [x |-> (0 - MinX(nh, arr)) + Padding, y |-> (0 - MinY(nh, arr)) + Padding]

----------------------------------------------------------------------------
(* LayoutManager, src/unnamed/part_000 *)

validateConfig(config) ==
  /\ config.type # Undefined
  /\ config.direction # Undefined
  /\ config.spacing.t = "object"
  /\ config.spacing.horizontal.t = "number"
  /\ config.spacing.vertical.t = "number"
  /\ config.spacing.node.t = "number"

\* Mutant: the early return without the test for an empty diagram.
ReturnsInput_OnlyNone(ah, data, engine) ==
  engine = "none"

\* if (engine === 'none' || data.nodes.length === 0) return data;
ReturnsInput(ah, data, engine) ==
  engine = "none" \/ Len(ah[data.nodes]) = 0

\* layoutedNodes.map(node => ({...node, position: {x + offset.x, y + offset.y}}))
CenterNodes(nh, arr, offset) ==
  [i \in 1..Len(arr) |->
     LET n == nh[arr[i]]
     IN  Fresh(Node(n.id, n.x + offset.x, n.y + offset.y, n.w, n.h))]

\* Mutant: the nodes are moved where they are and the input object is returned.
Centered_InPlace(nh, ah, dh, dataRef, layouted, engine) ==
  LET offset == IF engine = "dagre" THEN DagreGetBounds(nh, ah[layouted])
                ELSE ElkGetBounds(nh, ah[layouted])
      arr == ah[layouted]
  IN  [nh  |-> [r \in 1..Len(nh) |->
                  IF \E i \in 1..Len(arr) : arr[i] = r
                  THEN [nh[r] EXCEPT !.x = @ + offset.x, !.y = @ + offset.y]
                  ELSE nh[r]],
       ah  |-> ah,
       dh  |-> Append(dh, [dh[dataRef] EXCEPT !.nodes = layouted]),
       ret |-> [k |-> "data", ref |-> Len(dh) + 1]]

\* Lines 34-51: bounds, centering and the returned object.
Centered(nh, ah, dh, dataRef, layouted, engine) ==
  LET offset == IF engine = "dagre" THEN DagreGetBounds(nh, ah[layouted])
                ELSE ElkGetBounds(nh, ah[layouted])
      m == MapArray(nh, ah[layouted], CenterNodes(nh, ah[layouted], offset))
  IN  [nh  |-> m.nh,
       ah  |-> Append(ah, m.arr),
       dh  |-> Append(dh, [dh[dataRef] EXCEPT !.nodes = Len(ah) + 1]),
       ret |-> [k |-> "data", ref |-> Len(dh) + 1]]

----------------------------------------------------------------------------
(* GeometryUtils, src/src/lib/utils/geometry.ts, in fixed point *)

\* Division rounding toward zero.
Quot(a, b) == IF a >= 0 THEN a \div b ELSE 0 - ((0 - a) \div b)

RECURSIVE ISqrtIn(_, _, _)
ISqrtIn(n, lo, hi) ==
  IF lo >= hi THEN lo
  ELSE LET mid == (lo + hi + 1) \div 2
       IN  IF mid * mid <= n THEN ISqrtIn(n, mid, hi) ELSE ISqrtIn(n, lo, mid - 1)

\* floor(sqrt(n)) for 0 <= n < 2^31
ISqrt(n) ==
  ISqrtIn(n, 0, IF n < 1024 THEN Min2(n, 32) ELSE IF n < 1048576 THEN 1024 ELSE 46340)

\* Math.pow(dx, 2) + Math.pow(dy, 2), the square of GeometryUtils.distance
Dist2(p1, p2) == (p2.x - p1.x) * (p2.x - p1.x) + (p2.y - p1.y) * (p2.y - p1.y)

\* GeometryUtils.distance, rounded down
distance(p1, p2) == ISqrt(Dist2(p1, p2))

\* Math.cos / Math.sin of GeometryUtils.angle(p1, p2), times len: the x / y
\* share of a vector of length len pointing from p1 to p2.  atan2(0, 0) = 0.
AlongX(p1, p2, len) ==
  IF len = 0 THEN 0
  ELSE IF Dist2(p1, p2) = 0 THEN len
  ELSE Quot((p2.x - p1.x) * len, distance(p1, p2))
AlongY(p1, p2, len) ==
  IF len = 0 \/ Dist2(p1, p2) = 0 THEN 0
  ELSE Quot((p2.y - p1.y) * len, distance(p1, p2))

\* GeometryUtils.clamp without Math.max: only the upper bound is applied.
clamp_UpperOnly(value, min, max) == Min2(value, max)

\* GeometryUtils.clamp, lines 157-159
clamp(value, min, max) == Min2(Max2(value, min), max)

\* sin(2*pi*k/n) * 1000 and cos(2*pi*k/n) * 1000
SinTable ==
  << <<0>>, <<0, 0>>, <<0, 866, -866>>, <<0, 1000, 0, -1000>>,
     <<0, 951, 588, -588, -951>>, <<0, 866, 866, 0, -866, -866>> >>
CosTable ==
  << <<1000>>, <<1000, -1000>>, <<1000, -500, -500>>, <<1000, 0, -1000, 0>>,
     <<1000, 309, -809, -809, 309>>, <<1000, 500, -500, -1000, -500, 500>> >>
Sin1000(k, n) == SinTable[n][k + 1]
Cos1000(k, n) == CosTable[n][k + 1]

----------------------------------------------------------------------------
(* CustomLayoutEngine, src/src/lib/layouts/engines/custom.ts *)

Algorithms == {"force", "circular", "tree", "grid", "organic"}
Absent == "<absent>"

DefaultIterations == 100
DefaultRepulsion == 1000
DefaultAttraction1000 == 100   \* 0.1
DefaultDamping100 == 90        \* 0.9
DefaultCenterX == 400
DefaultCenterY == 300
ClampMin == -1000
ClampMax == 2000
RootSpacing == 200
RootRise == 200
ChildSpacing == 150
LevelDrop == 100
GridSpacingX == 150
GridSpacingY == 100
MaxRadius == 300
OrganicIterations == 20
OrganicRepulsion == 500
OrganicAttraction1000 == 50    \* 0.05
OrganicDamping100 == 80        \* 0.8

\* `a || b` on numbers: 0 (like undefined) gives the default.
OrNum(a, b) == IF a = 0 THEN b ELSE a

NoOptions ==
  [algorithm |-> Absent, iterations |-> 0, repulsion |-> 0, attraction1000 |-> 0,
   damping100 |-> 0, centerX |-> 0, centerY |-> 0]

\* Lines 26-34: the options of a new engine.
EngineOptions(options) ==
  [algorithm      |-> IF options.algorithm = Absent THEN "force" ELSE options.algorithm,
   iterations     |-> OrNum(options.iterations, DefaultIterations),
   repulsion      |-> OrNum(options.repulsion, DefaultRepulsion),
   attraction1000 |-> OrNum(options.attraction1000, DefaultAttraction1000),
   damping100     |-> OrNum(options.damping100, DefaultDamping100),
   centerX        |-> OrNum(options.centerX, DefaultCenterX),
   centerY        |-> OrNum(options.centerY, DefaultCenterY)]

\* `[...nodes]`: a new array holding the same node objects.
CopyArray(ah, arr) == [ah |-> Append(ah, ah[arr]), arr |-> Len(ah) + 1]

\* constructor(nodes, edges, options)
NewEngine(ah, nodes, edges, options) ==
  LET c == CopyArray(ah, nodes)
  IN  [ah |-> c.ah,
       engine |-> [nodes |-> c.arr, edges |-> edges, options |-> EngineOptions(options)]]

RECURSIVE FindFrom(_, _, _, _)
FindFrom(nh, arr, id, i) ==
  IF i > Len(arr) THEN 0
  ELSE IF nh[arr[i]].id = id THEN i
  ELSE FindFrom(nh, arr, id, i + 1)

\* nodes.find(n => n.id === id): index of the first node with that id, 0 if none
FindIdx(nh, arr, id) == FindFrom(nh, arr, id, 1)

\* Lines 72-80: the repulsive force between nodes[i] and nodes[j], i < j, in
\* hundredths, as added to forces[j] (and subtracted from forces[i]).
Repulse(nh, arr, i, j, opt) ==
  LET p1 == nh[arr[i]]
      p2 == nh[arr[j]]
      force100 == (opt.repulsion * 100) \div (Dist2(p1, p2) + 1)
  IN  [x |-> AlongX(p1, p2, force100), y |-> AlongY(p1, p2, force100)]

\* Lines 85-100: the attractive force of one edge in hundredths, as added
\* to the source's force (and subtracted from the target's); zero when
\* either endpoint is not found.  cos(angle) * attraction * distance is
\* attraction * dx.
Attract(nh, arr, edge, opt) ==
  LET s == FindIdx(nh, arr, edge.source)
      t == FindIdx(nh, arr, edge.target)
  IN  IF s # 0 /\ t # 0
      THEN [s |-> s, t |-> t,
            x |-> Quot(opt.attraction1000 * (nh[arr[t]].x - nh[arr[s]].x), 10),
            y |-> Quot(opt.attraction1000 * (nh[arr[t]].y - nh[arr[s]].y), 10)]
      ELSE [s |-> 0, t |-> 0, x |-> 0, y |-> 0]

RECURSIVE RepulsionOn(_, _, _, _, _)
RepulsionOn(nh, arr, i, j, opt) ==
  IF j > Len(arr) THEN [x |-> 0, y |-> 0]
  ELSE LET rest == RepulsionOn(nh, arr, i, j + 1, opt)
           f == IF i < j THEN Repulse(nh, arr, i, j, opt)
                ELSE IF j < i THEN Repulse(nh, arr, j, i, opt)
                ELSE [x |-> 0, y |-> 0]
           sign == IF i < j THEN -1 ELSE 1
       IN  [x |-> rest.x + sign * f.x, y |-> rest.y + sign * f.y]

RECURSIVE AttractionOn(_, _, _, _, _, _)
AttractionOn(nh, arr, edges, k, i, opt) ==
  IF k > Len(edges) THEN [x |-> 0, y |-> 0]
  ELSE LET rest == AttractionOn(nh, arr, edges, k + 1, i, opt)
           a == Attract(nh, arr, edges[k], opt)
           sign == (IF a.s = i THEN 1 ELSE 0) - (IF a.t = i THEN 1 ELSE 0)
       IN  [x |-> rest.x + sign * a.x, y |-> rest.y + sign * a.y]

\* One pass of the loop body, lines 60-111: the node objects after it.
ForceIteration(nh, arr, edges, opt) ==
  LET moved(i) ==
        LET r == RepulsionOn(nh, arr, i, 1, opt)
            a == AttractionOn(nh, arr, edges, 1, i, opt)
            n == nh[arr[i]]
        IN  [n EXCEPT
               !.x = clamp(n.x + Quot((r.x + a.x) * opt.damping100, 10000), ClampMin, ClampMax),
               !.y = clamp(n.y + Quot((r.y + a.y) * opt.damping100, 10000), ClampMin, ClampMax)]
  IN  [r \in 1..Len(nh) |->
         IF \E i \in 1..Len(arr) : arr[i] = r
         THEN moved(CHOOSE i \in 1..Len(arr) : arr[i] = r)
         ELSE nh[r]]

RECURSIVE ForceLoop(_, _, _, _, _)
\* A pass that moves nothing is repeated unchanged by every later pass.
ForceContinue(nh, next, arr, edges, opt, iteration) ==
  IF next = nh THEN nh ELSE ForceLoop(next, arr, edges, opt, iteration + 1)

\* Lines 59-112: the for loop.
ForceLoop(nh, arr, edges, opt, iteration) ==
  IF iteration >= opt.iterations THEN nh
  ELSE ForceContinue(nh, ForceIteration(nh, arr, edges, opt), arr, edges, opt, iteration)

\* Each algorithm takes the heaps and the engine and gives the heaps after
\* the call and the array it returns.
forceDirectedLayout(nh, ah, engine) ==
  LET c == CopyArray(ah, engine.nodes)
  IN  [nh  |-> ForceLoop(nh, ah[engine.nodes], engine.edges, engine.options, 0),
       ah  |-> c.ah,
       arr |-> c.arr]

\* Math.min(300, (nodes.length * 50) / (2 * Math.PI)), in hundredths
Radius100(n) == Min2(MaxRadius * 100, (n * 50 * 100000) \div 6283)

circularLayout(nh, ah, engine) ==
  LET c == CopyArray(ah, engine.nodes)
      arr == ah[engine.nodes]
      n == Len(arr)
      placed(i) ==
        [nh[arr[i]] EXCEPT
           !.x = engine.options.centerX + Quot(Sin1000(i - 1, n) * Radius100(n), 100000),
           !.y = engine.options.centerY + Quot((0 - Cos1000(i - 1, n)) * Radius100(n), 100000)]
  IN  [nh  |-> [r \in 1..Len(nh) |->
                  IF \E i \in 1..n : arr[i] = r
                  THEN placed(CHOOSE i \in 1..n : arr[i] = r)
                  ELSE nh[r]],
       ah  |-> c.ah,
       arr |-> c.arr]

\* adjacencyList.get(id): the targets of the edges leaving id, in edge order
RECURSIVE Children(_, _)
Children(edges, id) ==
  IF edges = <<>> THEN <<>>
  ELSE (IF Head(edges).source = id THEN <<Head(edges).target>> ELSE <<>>)
       \o Children(Tail(edges), id)

\* new Set(this.edges.map(edge => edge.target))
Targets(edges) == { edges[i].target : i \in 1..Len(edges) }

RECURSIVE FilterRoots(_, _, _)
FilterRoots(nh, arr, targets) ==
  IF arr = <<>> THEN <<>>
  ELSE (IF nh[Head(arr)].id \in targets THEN <<>> ELSE <<Head(arr)>>)
       \o FilterRoots(nh, Tail(arr), targets)

\* Lines 150-152 alone: without the fallback to the first node.
RootNodes_NoFallback(nh, arr, edges) == FilterRoots(nh, arr, Targets(edges))

\* Lines 150-156: the root nodes, as node references in input order.
RootNodes(nh, arr, edges) ==
  LET roots == FilterRoots(nh, arr, Targets(edges))
  IN  IF Len(roots) = 0 /\ Len(arr) > 0 THEN <<arr[1]>> ELSE roots

\* nodeMap.get(id): the last node of the array with that id, 0 if none
NodeMapGet(nh, arr, id) ==
  IF \E i \in 1..Len(arr) : nh[arr[i]].id = id
  THEN arr[CHOOSE i \in 1..Len(arr) :
             /\ nh[arr[i]].id = id
             /\ \A j \in (i + 1)..Len(arr) : nh[arr[j]].id # id]
  ELSE 0

\* Lines 162-169 with the row of roots centered on centerX.
RootQueue_Centered(roots, opt) ==
  [i \in 1..Len(roots) |->
     [node |-> roots[i],
      x |-> opt.centerX + ((i - 1) * RootSpacing - ((Len(roots) - 1) * RootSpacing) \div 2),
      y |-> opt.centerY - RootRise]]

\* Lines 162-169: the initial queue.
RootQueue(roots, opt) ==
  [i \in 1..Len(roots) |->
     [node |-> roots[i],
      x |-> opt.centerX + ((i - 1) * RootSpacing - (Len(roots) * RootSpacing) \div 2),
      y |-> opt.centerY - RootRise]]

\* Lines 185-195 without `!visited.has(childId)`: every child that is a
\* node is pushed.
RECURSIVE ChildEntries_PushesVisited(_, _, _, _, _, _, _)
ChildEntries_PushesVisited(nh, arr, children, index, visited, x, y) ==
  IF index > Len(children) THEN <<>>
  ELSE LET childNode == NodeMapGet(nh, arr, children[index])
           startX == x - Quot((Len(children) - 1) * ChildSpacing, 2)
       IN  (IF childNode # 0
            THEN <<[node |-> childNode,
                    x |-> startX + (index - 1) * ChildSpacing,
                    y |-> y + LevelDrop]>>
            ELSE <<>>)
           \o ChildEntries_PushesVisited(nh, arr, children, index + 1, visited, x, y)

\* Lines 185-195: the queue entries pushed for the children of a node placed at (x, y).
RECURSIVE ChildEntries(_, _, _, _, _, _, _)
ChildEntries(nh, arr, children, index, visited, x, y) ==
  IF index > Len(children) THEN <<>>
  ELSE LET childNode == NodeMapGet(nh, arr, children[index])
           startX == x - Quot((Len(children) - 1) * ChildSpacing, 2)
       IN  (IF childNode # 0 /\ children[index] \notin visited
            THEN <<[node |-> childNode,
                    x |-> startX + (index - 1) * ChildSpacing,
                    y |-> y + LevelDrop]>>
            ELSE <<>>)
           \o ChildEntries(nh, arr, children, index + 1, visited, x, y)

\* Lines 171-196: the while loop.
RECURSIVE TreeLoop(_, _, _, _, _)
TreeLoop(nh, arr, edges, queue, visited) ==
  IF queue = <<>> THEN nh
  ELSE LET e == Head(queue)
           id == nh[e.node].id
       IN  IF id \in visited THEN TreeLoop(nh, arr, edges, Tail(queue), visited)
           ELSE TreeLoop([nh EXCEPT ![e.node].x = e.x, ![e.node].y = e.y],
                         arr, edges,
                         Tail(queue) \o ChildEntries(nh, arr, Children(edges, id), 1,
                                                     visited \cup {id}, e.x, e.y),
                         visited \cup {id})

treeLayout(nh, ah, engine) ==
  LET c == CopyArray(ah, engine.nodes)
      arr == ah[engine.nodes]
  IN  [nh  |-> TreeLoop(nh, arr, engine.edges,
                        RootQueue(RootNodes(nh, arr, engine.edges), engine.options), {}),
       ah  |-> c.ah,
       arr |-> c.arr]

\* Math.floor(Math.sqrt(n)) in place of Math.ceil(Math.sqrt(n))
CeilSqrt_Floor(n) == IF n = 0 THEN 0 ELSE Max2(ISqrt(n), 1)

\* Math.ceil(Math.sqrt(n))
CeilSqrt(n) == IF ISqrt(n) * ISqrt(n) = n THEN ISqrt(n) ELSE ISqrt(n) + 1
\* Math.ceil(n / cols)
CeilDiv(n, cols) == (n + cols - 1) \div cols

gridLayout(nh, ah, engine) ==
  LET c == CopyArray(ah, engine.nodes)
      arr == ah[engine.nodes]
      n == Len(arr)
      cols == CeilSqrt(n)
      rows == CeilDiv(n, cols)
      startX == engine.options.centerX - Quot((cols - 1) * GridSpacingX, 2)
      startY == engine.options.centerY - Quot((rows - 1) * GridSpacingY, 2)
      placed(i) ==
        [nh[arr[i]] EXCEPT
           !.x = startX + ((i - 1) % cols) * GridSpacingX,
           !.y = startY + ((i - 1) \div cols) * GridSpacingY]
  IN  [nh  |-> [r \in 1..Len(nh) |->
                  IF \E i \in 1..n : arr[i] = r
                  THEN placed(CHOOSE i \in 1..n : arr[i] = r)
                  ELSE nh[r]],
       ah  |-> c.ah,
       arr |-> c.arr]

\* Lines 227-231: node i moves by the 2i-1st and 2i-th draw of
\* (Math.random() - 0.5) * 30.
Jitter(nh, arr, draws) ==
  [r \in 1..Len(nh) |->
     IF \E i \in 1..Len(arr) : arr[i] = r
     THEN LET i == CHOOSE k \in 1..Len(arr) : arr[k] = r
          IN  [nh[r] EXCEPT !.x = @ + draws[2 * i - 1], !.y = @ + draws[2 * i]]
     ELSE nh[r]]

OrganicOptions ==
  [algorithm |-> "force", iterations |-> OrganicIterations, repulsion |-> OrganicRepulsion,
   attraction1000 |-> OrganicAttraction1000, damping100 |-> OrganicDamping100,
   centerX |-> 0, centerY |-> 0]

organicLayout(nh, ah, engine, draws) ==
  LET c == circularLayout(nh, ah, engine)
      j == Jitter(c.nh, c.ah[c.arr], draws)
      e == NewEngine(c.ah, c.arr, engine.edges, OrganicOptions)
  IN  forceDirectedLayout(j, e.ah, e.engine)

\* layout() with a force-directed layout that first moves every node by a
\* random amount, as organicLayout does.
layout_RandomStart(nh, ah, engine, draws) ==
  CASE engine.options.algorithm = "circular" -> circularLayout(nh, ah, engine)
    [] engine.options.algorithm = "tree" -> treeLayout(nh, ah, engine)
    [] engine.options.algorithm = "grid" -> gridLayout(nh, ah, engine)
    [] engine.options.algorithm = "organic" -> organicLayout(nh, ah, engine, draws)
    [] OTHER -> forceDirectedLayout(Jitter(nh, ah[engine.nodes], draws), ah, engine)

\* layout()
layout(nh, ah, engine, draws) ==
  CASE engine.options.algorithm = "force" -> forceDirectedLayout(nh, ah, engine)
    [] engine.options.algorithm = "circular" -> circularLayout(nh, ah, engine)
    [] engine.options.algorithm = "tree" -> treeLayout(nh, ah, engine)
    [] engine.options.algorithm = "grid" -> gridLayout(nh, ah, engine)
    [] engine.options.algorithm = "organic" -> organicLayout(nh, ah, engine, draws)
    [] OTHER -> forceDirectedLayout(nh, ah, engine)

\* Lines 254-256 with every type that names an algorithm given that algorithm.
AlgorithmOf_ByName(type) ==
  IF type = "flowchart" THEN "force"
  ELSE IF type = "org-chart" THEN "tree"
  ELSE IF type = "mind-map" THEN "organic"
  ELSE IF type = "tree" THEN "tree"
  ELSE "force"

\* Lines 254-256: the algorithm of a diagram type.
AlgorithmOf(type) ==
  IF type = "flowchart" THEN "force"
  ELSE IF type = "org-chart" THEN "tree"
  ELSE IF type = "mind-map" THEN "organic"
  ELSE "force"

\* applyCustomLayout(nodes, edges, config, options)
applyCustomLayout(nh, ah, nodes, edges, config, options, draws) ==
  LET e == NewEngine(ah, nodes, edges,
                     [options EXCEPT !.algorithm =
                        IF @ = Absent THEN AlgorithmOf(config.type) ELSE @])
  IN  layout(nh, e.ah, e.engine, draws)

----------------------------------------------------------------------------
(* AutoLayoutManager, src/unnamed/part_001 lines 1-157 *)

\* Lines 90-103: the configuration handed to applyCustomLayout.
AutoLayoutConfig(config) ==
  IF config.type \in {"flowchart", "org-chart", "mind-map"} THEN config
  ELSE [config EXCEPT !.type = "flowchart"]

\* Lines 105-112: the data returned for the nodes the engine positioned.
AutoLayouted(dh, dataRef, l) ==
  [nh  |-> l.nh,
   ah  |-> l.ah,
   dh  |-> Append(dh, [dh[dataRef] EXCEPT !.nodes = l.arr, !.updatedAt = 1]),
   ret |-> [k |-> "data", ref |-> Len(dh) + 1]]

\* private applyLayout(data)
AutoApplyLayout(nh, ah, dh, dataRef, draws) ==
  AutoLayouted(dh, dataRef,
               applyCustomLayout(nh, ah, dh[dataRef].nodes, dh[dataRef].edges,
                                 AutoLayoutConfig(dh[dataRef].layout), NoOptions, draws))

\* The callbacks that throw when they are called.
ThrowingCallbacks == {"bad"}

\* notifyListeners without the try / catch: the first throw ends the round.
notifyListeners_StopsAtThrow(ls, log, dataRef) ==
  LET stop == IF \E i \in 1..Len(ls) : ls[i] \in ThrowingCallbacks
              THEN CHOOSE i \in 1..Len(ls) :
                     /\ ls[i] \in ThrowingCallbacks
                     /\ \A j \in 1..(i - 1) : ls[j] \notin ThrowingCallbacks
              ELSE Len(ls)
  IN  log \o [i \in 1..stop |-> [callback |-> ls[i], data |-> dataRef]]

\* notifyListeners(data): every listener is called with data, in order; what
\* a listener throws is caught inside the loop (lines 118-122).
notifyListeners(ls, log, dataRef) ==
  log \o [i \in 1..Len(ls) |-> [callback |-> ls[i], data |-> dataRef]]

ChangeTypes == {"node-add", "node-remove", "node-resize", "edge-add", "edge-remove"}

DefaultDebounceMs == 300

\* Lines 21-29: the options of a manager constructed with none given.
DefaultOptions ==
  [triggerOnNodeAdd    |-> TRUE,
   triggerOnNodeRemove |-> TRUE,
   triggerOnNodeResize |-> FALSE,
   triggerOnEdgeAdd    |-> TRUE,
   triggerOnEdgeRemove |-> TRUE,
   debounceMs          |-> DefaultDebounceMs,
   enabled             |-> TRUE]

\* `given.k ?? base.k` for every key, and `{ ...base, ...given }`: the keys
\* given replace those of base.
MergeOptions(base, given) ==
  [k \in DOMAIN base |-> IF k \in DOMAIN given THEN given[k] ELSE base[k]]

\* shouldTrigger without the check of options.enabled.
shouldTrigger_IgnoresEnabled(opts, changeType) ==
  CASE changeType = "node-add" -> opts.triggerOnNodeAdd
    [] changeType = "node-remove" -> opts.triggerOnNodeRemove
    [] changeType = "node-resize" -> opts.triggerOnNodeResize
    [] changeType = "edge-add" -> opts.triggerOnEdgeAdd
    [] changeType = "edge-remove" -> opts.triggerOnEdgeRemove
    [] OTHER -> FALSE

\* shouldTrigger(changeType)
shouldTrigger(opts, changeType) ==
  IF ~opts.enabled THEN FALSE
  ELSE CASE changeType = "node-add" -> opts.triggerOnNodeAdd
         [] changeType = "node-remove" -> opts.triggerOnNodeRemove
         [] changeType = "node-resize" -> opts.triggerOnNodeResize
         [] changeType = "edge-add" -> opts.triggerOnEdgeAdd
         [] changeType = "edge-remove" -> opts.triggerOnEdgeRemove
         [] OTHER -> FALSE

\* The handle setTimeout returns for the n-th timeout.
Timeout(n) == [k |-> "timeout", n |-> n]

\* clearTimeout(handle): the timeout of that handle, if still pending, is
\* dropped; a handle that is null or stale changes nothing.
clearTimeout(ts, handle) == { t \in ts : t.id # handle }

\* setTimeout(callback, delay) at time `at`, the callback closing over data.
setTimeout(ts, id, at, delay, data) ==
  ts \cup {[id |-> id, due |-> at + delay, data |-> data]}

\* triggerAutoLayout without lines 71-73: the earlier timeout stays pending.
ClearExisting_Keeps(ts, handle) == ts

\* Lines 71-73 and 134-137, 151-154: `if (this.debounceTimer) clearTimeout(...)`.
ClearExisting(ts, handle) ==
  IF handle # Null THEN clearTimeout(ts, handle) ELSE ts

\* triggerAutoLayout with lines 71-73 ahead of line 68: the pending timeout
\* is cleared before shouldTrigger is asked.
GateReturn_AfterClear(ts, handle) == ClearExisting(ts, handle)

\* Line 68, `if (!this.shouldTrigger(changeType)) return;`: the timeouts
\* pending when triggerAutoLayout returns there.
GateReturn(ts, handle) == ts

----------------------------------------------------------------------------
(* Inputs *)

NodeIds == <<"A", "B", "C", "D", "E">>

Pos(x, y) == [x |-> x, y |-> y]

\* The positions of the nodes of a diagram, in input order: spread out, or
\* with nodes on top of each other and the first node not at the minimum.
PosLists ==
  { <<Pos(0, 0), Pos(10, 0), Pos(100, 100), Pos(60, 20), Pos(-40, 80)>>,
    <<Pos(110, 60), Pos(110, 60), Pos(0, 0), Pos(0, 0), Pos(50, 50)>> }

NodeSize(i) == [w |-> 40 + 20 * (i % 3), h |-> 20 + 20 * (i % 2)]

Edge(id, source, target) == [id |-> id, source |-> source, target |-> target]

\* "X" is the id of no node; "B" and "C" are dangling too in smaller diagrams.
EdgeChoices ==
  { <<>>,
    <<Edge("e1", "A", "B")>>,
    <<Edge("e1", "A", "B"), Edge("e2", "A", "C")>>,
    <<Edge("e1", "A", "B"), Edge("e2", "B", "A")>>,
    <<Edge("e1", "X", "B")>>,
    <<Edge("e1", "A", "X"), Edge("e2", "A", "B")>>,
    <<Edge("e1", "A", "A"), Edge("e2", "A", "B"), Edge("e3", "A", "B")>>,
    <<Edge("e1", "A", "C"), Edge("e2", "B", "C")>> }

GoodSpacing == Spacing(Num(50), Num(50), Num(20))

ConfigChoices ==
  { LayoutConfig("flowchart", "top-bottom", GoodSpacing),
    LayoutConfig("org-chart", "left-right", GoodSpacing),
    LayoutConfig("mind-map", "horizontal", GoodSpacing),
    LayoutConfig("custom", "bottom-top", GoodSpacing),
    LayoutConfig("tree", "top-bottom", GoodSpacing),
    LayoutConfig("hierarchy", "top-bottom", GoodSpacing),
    LayoutConfig("process-diagram", "left-right", GoodSpacing),
    LayoutConfig("org-chart", "top-bottom", Undef),
    LayoutConfig("org-chart", "top-bottom", Spacing(Num(50), Num(50), Undef)),
    LayoutConfig("org-chart", "top-bottom", Spacing(Str("50"), Num(50), Num(20))),
    LayoutConfig("org-chart", Undefined, GoodSpacing) }

SolverCoords == { [x |-> 50, y |-> 20], [x |-> 200, y |-> 120] }

Throw == [k |-> "throw"]

\* What dagre.layout can do: throw, or position every node.
DagreOutcomes(ids) ==
  {Throw} \cup { [k |-> "ok", at |-> f] : f \in [ids -> SolverCoords] }

\* What elk.layout can do: reject, or resolve with some of the children positioned.
ElkOutcomes(ids) ==
  {Throw} \cup { [k |-> "ok", at |-> f] :
                   f \in UNION { [s -> SolverCoords] : s \in SUBSET ids } }

\* The options a caller passes to applyCustomLayout.
OptionChoices ==
  { NoOptions,
    [NoOptions EXCEPT !.algorithm = "force", !.iterations = 2],
    [NoOptions EXCEPT !.algorithm = "circular"],
    [NoOptions EXCEPT !.algorithm = "grid", !.centerX = 100, !.centerY = 100] }

\* Streams of (Math.random() - 0.5) * 30, a value of [-15, 15).
DrawChoices ==
  { [i \in 1..(2 * Len(NodeIds)) |-> -15],
    [i \in 1..(2 * Len(NodeIds)) |-> 14],
    [i \in 1..(2 * Len(NodeIds)) |-> IF i % 2 = 0 THEN -15 ELSE 14] }

\* The streams that can tell two runs of an algorithm apart: only organic draws.
NoDraws == [i \in 1..(2 * Len(NodeIds)) |-> 0]
DrawsFor(algorithm) == IF algorithm = "organic" THEN DrawChoices ELSE {NoDraws}

----------------------------------------------------------------------------
(* The state machine *)

InputData == 1

\* Nothing has been asked of the manager yet.
NoHistory ==
  [calls            |-> 0,      \* calls made to the manager
   timerSeq         |-> 0,      \* timeouts set so far; handles are 1, 2, ...
   accepted         |-> Null,   \* the last trigger that passed shouldTrigger
   burst            |-> 0,      \* triggers accepted since the last layout or cancel
   gateOpen         |-> FALSE,  \* a trigger came while enabled with its flag set
   forced           |-> FALSE,  \* forceLayout has been called
   destroyedAt      |-> -1,     \* Len(notified) when destroy() was called
   pendingAtDestroy |-> {},     \* handles pending when destroy() was called
   pendingAtDisable |-> {},     \* handles pending when setEnabled(false) was called
   pendingAtForce   |-> {},     \* handles pending when forceLayout was called
   closures         |-> {},     \* callbacks whose unsubscribe closure exists
   turnedAway       |-> {},     \* triggers rejected while a timeout was pending
   unsubscribed     |-> {}]     \* callbacks unsubscribed and not subscribed since

Init ==
  /\ \E n \in 0..MaxNodes :
       \E pos \in PosLists :
         /\ nodeHeap = [i \in 1..n |->
                          Node(NodeIds[i], pos[i].x, pos[i].y, NodeSize(i).w, NodeSize(i).h)]
         /\ arrHeap = << [i \in 1..n |-> i] >>
  /\ \E edges \in EdgeChoices, config \in ConfigChoices :
       dataHeap = << [nodes |-> 1, edges |-> edges, layout |-> config, updatedAt |-> 0] >>
  /\ pc = "idle"
  /\ call = Null
  /\ ret = Null
  /\ pre = Null
  /\ engineLog = Null
  /\ debounceTimer = Null
  /\ listeners = <<>>
  /\ notified = <<>>
  /\ managerOptions = DefaultOptions
  /\ timers = {}
  /\ now = 0
  /\ computed = <<>>
  /\ hist = NoHistory
  /\ tree = Null
  /\ geo = Null
  /\ undoRedo = Null

Snapshot == [nh |-> nodeHeap, ah |-> arrHeap, dh |-> dataHeap]

\* The part of LayoutManager.applyLayout that runs in the caller's turn with
\* engine 'dagre' (lines 20-27 and 34-51).
DagrePath(op, outcome) ==
  LET data == dataHeap[InputData]
      l == DagreLayout(nodeHeap, arrHeap, data.nodes, data.edges, data.layout, outcome)
      c == Centered(l.nh, l.ah, dataHeap, InputData, l.arr, "dagre")
  IN  /\ call' = [op |-> op, engine |-> "dagre", data |-> InputData]
      /\ pre' = Snapshot
      /\ pc' = "done"
      /\ engineLog' = [engine |-> "dagre", config |-> data.layout, solver |-> l.solver,
                       solverThrew |-> l.solver # Null /\ outcome.k = "throw",
                       out |-> IF l.k = "throw" THEN Throw ELSE [k |-> "nodes", arr |-> l.arr]]
      /\ IF l.k = "throw"
         THEN /\ ret' = Throw
              /\ UNCHANGED <<nodeHeap, arrHeap, dataHeap>>
         ELSE /\ ret' = c.ret
              /\ nodeHeap' = c.nh
              /\ arrHeap' = c.ah
              /\ dataHeap' = c.dh
      /\ UNCHANGED <<managerVars, tree, hookVars>>

\* applyLayout(data, engine) returning at line 21.
ApplyLayoutIdentity(op, engine) ==
  /\ pc = "idle"
  /\ ReturnsInput(arrHeap, dataHeap[InputData], engine)
  /\ call' = [op |-> op, engine |-> engine, data |-> InputData]
  /\ pre' = Snapshot
  /\ ret' = [k |-> "data", ref |-> InputData]
  /\ pc' = "done"
  /\ UNCHANGED <<nodeHeap, arrHeap, dataHeap, engineLog, managerVars, tree, hookVars>>

\* applyLayout(data, 'dagre')
ApplyLayoutDagre ==
  /\ pc = "idle"
  /\ ~ReturnsInput(arrHeap, dataHeap[InputData], "dagre")
  /\ \E outcome \in DagreOutcomes(IdSet(nodeHeap, arrHeap[dataHeap[InputData].nodes])) :
       DagrePath("applyLayout", outcome)

\* applyLayout(data, 'elkjs') up to `await elk.layout(elkGraph)`; a TypeError
\* while building the graph rejects the promise of layout().
ApplyLayoutElk ==
  /\ pc = "idle"
  /\ ~ReturnsInput(arrHeap, dataHeap[InputData], "elkjs")
  /\ LET data == dataHeap[InputData]
         graph == ElkGraph(nodeHeap, arrHeap[data.nodes], data.edges, data.layout)
     IN  /\ call' = [op |-> "applyLayout", engine |-> "elkjs", data |-> InputData]
         /\ pre' = Snapshot
         /\ pc' = "elk-await"
         /\ engineLog' = [engine |-> "elkjs", config |-> data.layout,
                          solver |-> IF graph.k = "throw" THEN Null ELSE graph,
                          solverThrew |-> FALSE,
                          out |-> IF graph.k = "throw" THEN Throw ELSE Null]
  /\ ret' = Null
  /\ UNCHANGED <<nodeHeap, arrHeap, dataHeap, managerVars, tree, hookVars>>

\* The promise of ElkJSLayoutEngine.layout settles and applyLayout resumes
\* (lines 34-51), or rejects with the TypeError raised before the await.
ElkResume ==
  /\ pc = "elk-await"
  /\ pc' = "done"
  /\ IF engineLog.out = Throw
     THEN /\ ret' = Throw
          /\ UNCHANGED <<nodeHeap, arrHeap, dataHeap, engineLog>>
     ELSE \E outcome \in ElkOutcomes(IdSet(nodeHeap, arrHeap[dataHeap[InputData].nodes])) :
            LET data == dataHeap[InputData]
                l == ElkSettle(nodeHeap, arrHeap, data.nodes, outcome)
                c == Centered(l.nh, l.ah, dataHeap, InputData, l.arr, "elkjs")
            IN  /\ engineLog' = [engineLog EXCEPT
                                   !.solverThrew = (outcome.k = "throw"),
                                   !.out = [k |-> "nodes", arr |-> l.arr]]
                /\ ret' = c.ret
                /\ nodeHeap' = c.nh
                /\ arrHeap' = c.ah
                /\ dataHeap' = c.dh
  /\ UNCHANGED <<call, pre, managerVars, tree, hookVars>>

\* LayoutManager.autoLayout(data)
AutoLayout ==
  \/ ApplyLayoutIdentity("autoLayout", "dagre")
  \/ /\ pc = "idle"
     /\ ~ReturnsInput(arrHeap, dataHeap[InputData], "dagre")
     /\ \E outcome \in DagreOutcomes(IdSet(nodeHeap, arrHeap[dataHeap[InputData].nodes])) :
          DagrePath("autoLayout", outcome)

\* applyLayout(data, engine) for the three engine names
ApplyLayout ==
  \/ \E engine \in {"dagre", "elkjs", "none"} : ApplyLayoutIdentity("applyLayout", engine)
  \/ ApplyLayoutDagre
  \/ ApplyLayoutElk

\* applyCustomLayout(data.nodes, data.edges, data.layout, options)
ApplyCustomLayout ==
  /\ pc = "idle"
  /\ \E options \in OptionChoices :
     \E draws \in DrawsFor(IF options.algorithm = Absent
                            THEN AlgorithmOf(dataHeap[InputData].layout.type)
                            ELSE options.algorithm) :
       LET data == dataHeap[InputData]
           l == applyCustomLayout(nodeHeap, arrHeap, data.nodes, data.edges, data.layout,
                                  options, draws)
       IN  /\ call' = [op |-> "applyCustomLayout", options |-> options, data |-> InputData,
                       algorithm |-> IF options.algorithm = Absent
                                     THEN AlgorithmOf(data.layout.type)
                                     ELSE options.algorithm]
           /\ nodeHeap' = l.nh
           /\ arrHeap' = l.ah
           /\ ret' = [k |-> "nodes", arr |-> l.arr]
  /\ pre' = Snapshot
  /\ pc' = "done"
  /\ UNCHANGED <<dataHeap, engineLog, managerVars, tree, hookVars>>

\* The heaps, the log of callbacks and the log of runs after a run of the
\* private applyLayout(data) that gave l, followed by notifyListeners.
Notified(cause, timer, dataRef, l) ==
  /\ nodeHeap' = l.nh
  /\ arrHeap' = l.ah
  /\ dataHeap' = l.dh
  /\ ret' = IF cause = "force" THEN l.ret ELSE Null
  /\ notified' = notifyListeners(listeners, notified, l.ret.ref)
  /\ computed' = Append(computed,
                        [cause |-> cause, timer |-> timer, data |-> dataRef,
                         out |-> l.ret.ref, at |-> now, from |-> Len(notified),
                         listeners |-> listeners, accepted |-> hist.accepted,
                         burst |-> hist.burst])
  /\ pre' = Snapshot

\* `const newData = this.applyLayout(data); this.notifyListeners(newData)`, as
\* forceLayout (lines 139-140) and the timeout callback (lines 77-78) do it.
RunLayout(cause, timer, dataRef, draws) ==
  Notified(cause, timer, dataRef,
           AutoApplyLayout(nodeHeap, arrHeap, dataHeap, dataRef, draws))

\* forceLayout without lines 134-137: a pending timeout is left alone.
ForceLayoutCall_KeepsTimer(dataRef) ==
  /\ \E draws \in DrawsFor(AlgorithmOf(AutoLayoutConfig(dataHeap[dataRef].layout).type)) :
       RunLayout("force", Null, dataRef, draws)
  /\ call' = [op |-> "forceLayout", data |-> dataRef,
              algorithm |-> AlgorithmOf(AutoLayoutConfig(dataHeap[dataRef].layout).type)]
  /\ hist' = [hist EXCEPT !.calls = @ + 1, !.forced = TRUE, !.burst = 0,
                           !.pendingAtForce = @ \cup { t.id : t \in timers }]
  /\ UNCHANGED <<listeners, managerOptions, now, timers, debounceTimer>>

\* forceLayout(data), lines 132-142
ForceLayoutCall(dataRef) ==
  /\ \E draws \in DrawsFor(AlgorithmOf(AutoLayoutConfig(dataHeap[dataRef].layout).type)) :
       RunLayout("force", Null, dataRef, draws)
  /\ timers' = ClearExisting(timers, debounceTimer)
  /\ debounceTimer' = Null
  /\ call' = [op |-> "forceLayout", data |-> dataRef,
              algorithm |-> AlgorithmOf(AutoLayoutConfig(dataHeap[dataRef].layout).type)]
  /\ hist' = [hist EXCEPT !.calls = @ + 1, !.forced = TRUE, !.burst = 0,
                           !.pendingAtForce = @ \cup { t.id : t \in timers }]
  /\ UNCHANGED <<listeners, managerOptions, now>>

\* AutoLayoutManager.forceLayout(data) on a new manager
ForceLayout ==
  /\ pc = "idle"
  /\ ForceLayoutCall(InputData)
  /\ pc' = "done"
  /\ UNCHANGED <<engineLog, tree, hookVars>>

Next ==
  \/ ApplyLayout
  \/ ElkResume
  \/ AutoLayout
  \/ ApplyCustomLayout
  \/ ForceLayout

Spec == Init /\ [][Next]_vars

----------------------------------------------------------------------------
(* One AutoLayoutManager over its lifetime: calls, the clock, the timeout *)

Callbacks == {"f", "bad"}

\* What callers pass to the constructor.
ConstructorChoices ==
  { [debounceMs |-> TickMs],
    [enabled |-> FALSE, debounceMs |-> TickMs],
    [triggerOnNodeAdd |-> FALSE] }

\* What callers pass to updateOptions.
UpdateChoices ==
  { [debounceMs |-> 2 * TickMs],
    [triggerOnNodeResize |-> TRUE, enabled |-> TRUE] }

\* The two diagrams the callers hold: an org-chart A -> B and a diagram of
\* type 'custom' with the single node C.
AutoInputs == {1, 2}

AutoInit ==
  /\ nodeHeap = << Node("A", 0, 0, 40, 20), Node("B", 10, 0, 60, 40),
                   Node("C", 100, 100, 80, 20) >>
  /\ arrHeap = << <<1, 2>>, <<3>> >>
  /\ dataHeap = << [nodes |-> 1, edges |-> <<Edge("e1", "A", "B")>>,
                    layout |-> LayoutConfig("org-chart", "top-bottom", GoodSpacing),
                    updatedAt |-> 0],
                   [nodes |-> 2, edges |-> <<>>,
                    layout |-> LayoutConfig("custom", "top-bottom", GoodSpacing),
                    updatedAt |-> 0] >>
  /\ pc = "idle"
  /\ call = Null
  /\ ret = Null
  /\ pre = Null
  /\ engineLog = Null
  /\ debounceTimer = Null
  /\ listeners = <<>>
  /\ notified = <<>>
  /\ \E given \in ConstructorChoices : managerOptions = MergeOptions(DefaultOptions, given)
  /\ timers = {}
  /\ now = 0
  /\ computed = <<>>
  /\ hist = NoHistory
  /\ tree = Null
  /\ geo = Null
  /\ undoRedo = Null

MayCall == pc = "idle" /\ hist.calls < MaxCalls

\* subscribe(callback), lines 33-41
Subscribe ==
  /\ MayCall
  /\ Len(listeners) < MaxListeners
  /\ \E callback \in Callbacks :
       /\ listeners' = Append(listeners, callback)
       /\ call' = [op |-> "subscribe", callback |-> callback]
       /\ hist' = [hist EXCEPT !.calls = @ + 1, !.closures = @ \cup {callback},
                                !.unsubscribed = @ \ {callback}]
  /\ UNCHANGED <<nodeHeap, arrHeap, dataHeap, pc, ret, pre, engineLog, debounceTimer,
                 notified, managerOptions, timers, now, computed, tree, hookVars>>

\* listeners.splice(index, 1) for the first index holding callback
RECURSIVE RemoveFirst(_, _)
RemoveFirst(ls, callback) ==
  IF ls = <<>> THEN <<>>
  ELSE IF Head(ls) = callback THEN Tail(ls)
  ELSE <<Head(ls)>> \o RemoveFirst(Tail(ls), callback)

\* The function subscribe returned, lines 35-40
Unsubscribe ==
  /\ MayCall
  /\ \E callback \in hist.closures :
       /\ listeners' = RemoveFirst(listeners, callback)
       /\ call' = [op |-> "unsubscribe", callback |-> callback]
       /\ hist' = [hist EXCEPT !.calls = @ + 1, !.unsubscribed = @ \cup {callback}]
  /\ UNCHANGED <<nodeHeap, arrHeap, dataHeap, pc, ret, pre, engineLog, debounceTimer,
                 notified, managerOptions, timers, now, computed, tree, hookVars>>

\* The flag of a change type in the options.
FlagOf(changeType) ==
  CASE changeType = "node-add" -> "triggerOnNodeAdd"
    [] changeType = "node-remove" -> "triggerOnNodeRemove"
    [] changeType = "node-resize" -> "triggerOnNodeResize"
    [] changeType = "edge-add" -> "triggerOnEdgeAdd"
    [] changeType = "edge-remove" -> "triggerOnEdgeRemove"

\* triggerAutoLayout(data, changeType), lines 64-81
TriggerAutoLayout ==
  /\ MayCall
  /\ \E dataRef \in AutoInputs, changeType \in ChangeTypes :
       LET open == managerOptions.enabled /\ managerOptions[FlagOf(changeType)]
           handle == Timeout(hist.timerSeq + 1)
       IN  IF ~shouldTrigger(managerOptions, changeType)
           THEN /\ call' = [op |-> "triggerAutoLayout", data |-> dataRef, at |-> now,
                            accepted |-> FALSE]
                /\ hist' = [hist EXCEPT
                              !.calls = @ + 1,
                              !.gateOpen = @ \/ open,
                              !.turnedAway =
                                 @ \cup { [timer |-> t, started |-> hist.accepted,
                                           at |-> now, data |-> dataRef] : t \in timers }]
                /\ timers' = GateReturn(timers, debounceTimer)
                /\ UNCHANGED debounceTimer
           ELSE /\ call' = [op |-> "triggerAutoLayout", data |-> dataRef, at |-> now,
                            accepted |-> TRUE]
                /\ timers' = setTimeout(ClearExisting(timers, debounceTimer), handle, now,
                                        managerOptions.debounceMs, dataRef)
                /\ debounceTimer' = handle
                /\ hist' = [hist EXCEPT
                              !.calls = @ + 1,
                              !.gateOpen = @ \/ open,
                              !.timerSeq = @ + 1,
                              !.burst = @ + 1,
                              !.accepted = [at |-> now, data |-> dataRef,
                                            debounceMs |-> managerOptions.debounceMs]]
  /\ UNCHANGED <<nodeHeap, arrHeap, dataHeap, pc, ret, pre, engineLog, listeners,
                 notified, managerOptions, now, computed, tree, hookVars>>

\* A pending timeout that is due runs its callback, lines 77-79.
TimerFires ==
  /\ pc = "idle"
  /\ \E t \in timers :
       /\ t.due <= now
       /\ \E draws \in DrawsFor(AlgorithmOf(AutoLayoutConfig(dataHeap[t.data].layout).type)) :
            RunLayout("timer", t.id, t.data, draws)
       /\ timers' = timers \ {t}
       /\ call' = [op |-> "timeout", data |-> t.data, timer |-> t.id]
  /\ debounceTimer' = Null
  /\ hist' = [hist EXCEPT !.burst = 0]
  /\ UNCHANGED <<pc, engineLog, listeners, managerOptions, now, tree, hookVars>>

\* Time passes.
Tick ==
  /\ pc = "idle"
  /\ now < MaxTime
  /\ now' = now + TickMs
  /\ UNCHANGED <<nodeHeap, arrHeap, dataHeap, pc, call, ret, pre, engineLog, debounceTimer,
                 listeners, notified, managerOptions, timers, computed, hist, tree, hookVars>>

\* forceLayout(data) at any time
ManagerForceLayout ==
  /\ MayCall
  /\ \E dataRef \in AutoInputs : ForceLayoutCall(dataRef)
  /\ UNCHANGED <<pc, engineLog, tree, hookVars>>

\* updateOptions(newOptions), lines 127-129
UpdateOptions ==
  /\ MayCall
  /\ \E newOptions \in UpdateChoices :
       /\ managerOptions' = MergeOptions(managerOptions, newOptions)
       /\ call' = [op |-> "updateOptions", options |-> newOptions]
  /\ hist' = [hist EXCEPT !.calls = @ + 1]
  /\ UNCHANGED <<nodeHeap, arrHeap, dataHeap, pc, ret, pre, engineLog, debounceTimer,
                 listeners, notified, timers, now, computed, tree, hookVars>>

\* setEnabled(enabled), lines 145-147
SetEnabled ==
  /\ MayCall
  /\ \E enabled \in BOOLEAN :
       /\ managerOptions' = [managerOptions EXCEPT !.enabled = enabled]
       /\ call' = [op |-> "setEnabled", enabled |-> enabled]
       /\ hist' = [hist EXCEPT
                     !.calls = @ + 1,
                     !.pendingAtDisable =
                        IF enabled THEN @ ELSE @ \cup { t.id : t \in timers }]
  /\ UNCHANGED <<nodeHeap, arrHeap, dataHeap, pc, ret, pre, engineLog, debounceTimer,
                 listeners, notified, timers, now, computed, tree, hookVars>>

\* destroy(), lines 150-156
Destroy ==
  /\ MayCall
  /\ timers' = ClearExisting(timers, debounceTimer)
  /\ debounceTimer' = Null
  /\ listeners' = <<>>
  /\ call' = [op |-> "destroy"]
  /\ hist' = [hist EXCEPT
                !.calls = @ + 1,
                !.burst = 0,
                !.destroyedAt = IF @ = -1 THEN Len(notified) ELSE @,
                !.pendingAtDestroy = @ \cup { t.id : t \in timers }]
  /\ UNCHANGED <<nodeHeap, arrHeap, dataHeap, pc, ret, pre, engineLog, notified,
                 managerOptions, now, computed, tree, hookVars>>

AutoNext ==
  \/ Subscribe
  \/ Unsubscribe
  \/ TriggerAutoLayout
  \/ TimerFires
  \/ Tick
  \/ ManagerForceLayout
  \/ UpdateOptions
  \/ SetEnabled
  \/ Destroy

AutoSpec == AutoInit /\ [][AutoNext]_vars

----------------------------------------------------------------------------
(* Subscribers that unsubscribe while notifyListeners is calling them *)

\* f returns, bad throws; once calls the unsubscribe function of its own
\* subscription and kick the one of f's subscription, when they are called.
NotifyCallbacks == {"f", "bad", "once", "kick"}

\* The callback whose unsubscribe function a callback calls.
Unsubscribing == [once |-> "once", kick |-> "f"]

\* The listeners after callback has been called: the unsubscribe function,
\* lines 35-40, splices the first entry of its callback out of the array.
Invoke(callback, ls) ==
  IF callback \in DOMAIN Unsubscribing
  THEN RemoveFirst(ls, Unsubscribing[callback])
  ELSE ls

\* this.listeners.forEach(...), lines 117-123, from index k on. forEach fixes
\* the number of indices len when it starts, visits k = 1..len in order, and
\* passes over an index the array no longer has; the callback it calls is the
\* one the array holds at that index at that moment.
RECURSIVE forEach(_, _, _, _, _, _)
forEach(ls, k, len, log, unsub, dataRef) ==
  IF k > len THEN [listeners |-> ls, log |-> log, unsubscribed |-> unsub]
  ELSE IF k > Len(ls) THEN forEach(ls, k + 1, len, log, unsub, dataRef)
  ELSE forEach(Invoke(ls[k], ls), k + 1, len,
               Append(log, [callback |-> ls[k], data |-> dataRef]),
               IF ls[k] \in DOMAIN Unsubscribing
               THEN unsub \cup {Unsubscribing[ls[k]]} ELSE unsub,
               dataRef)

\* A manager constructed with {debounceMs}, nothing subscribed.
NotifyInit ==
  /\ AutoInit
  /\ managerOptions = MergeOptions(DefaultOptions, [debounceMs |-> TickMs])

\* subscribe(callback), lines 33-41
NotifySubscribe ==
  /\ MayCall
  /\ Len(listeners) < MaxListeners
  /\ \E callback \in NotifyCallbacks :
       /\ listeners' = Append(listeners, callback)
       /\ call' = [op |-> "subscribe", callback |-> callback]
       /\ hist' = [hist EXCEPT !.calls = @ + 1, !.closures = @ \cup {callback},
                                !.unsubscribed = @ \ {callback}]
  /\ UNCHANGED <<nodeHeap, arrHeap, dataHeap, pc, ret, pre, engineLog, debounceTimer,
                 notified, managerOptions, timers, now, computed, tree, hookVars>>

\* The function subscribe returned, lines 35-40, called between two rounds
NotifyUnsubscribe ==
  /\ MayCall
  /\ \E callback \in hist.closures :
       /\ listeners' = RemoveFirst(listeners, callback)
       /\ call' = [op |-> "unsubscribe", callback |-> callback]
       /\ hist' = [hist EXCEPT !.calls = @ + 1, !.unsubscribed = @ \cup {callback}]
  /\ UNCHANGED <<nodeHeap, arrHeap, dataHeap, pc, ret, pre, engineLog, debounceTimer,
                 notified, managerOptions, timers, now, computed, tree, hookVars>>

\* The state after a run of the private applyLayout(data) that gave l and
\* the round of notifyListeners that gave round.
RoundDone(dataRef, l, round) ==
  /\ nodeHeap' = l.nh
  /\ arrHeap' = l.ah
  /\ dataHeap' = l.dh
  /\ ret' = l.ret
  /\ listeners' = round.listeners
  /\ notified' = round.log
  /\ computed' = Append(computed,
                        [cause |-> "force", timer |-> Null, data |-> dataRef,
                         out |-> l.ret.ref, at |-> now, from |-> Len(notified),
                         listeners |-> listeners, accepted |-> hist.accepted,
                         burst |-> hist.burst, unsubscribed |-> hist.unsubscribed])
  /\ hist' = [hist EXCEPT
                !.calls = @ + 1, !.forced = TRUE, !.burst = 0,
                !.unsubscribed = (@ \cup round.unsubscribed) \cap hist.closures]
  /\ pre' = Snapshot

\* The round that follows a run of applyLayout that gave l.
RoundAfter(dataRef, l) ==
  RoundDone(dataRef, l,
            forEach(listeners, 1, Len(listeners), notified, {}, l.ret.ref))

\* forceLayout(data), lines 132-142, with such subscribers
NotifyForceLayout ==
  /\ MayCall
  /\ \E dataRef \in AutoInputs :
       /\ \E draws \in DrawsFor(AlgorithmOf(AutoLayoutConfig(dataHeap[dataRef].layout).type)) :
            RoundAfter(dataRef, AutoApplyLayout(nodeHeap, arrHeap, dataHeap, dataRef, draws))
       /\ call' = [op |-> "forceLayout", data |-> dataRef,
                   algorithm |-> AlgorithmOf(AutoLayoutConfig(dataHeap[dataRef].layout).type)]
  /\ timers' = ClearExisting(timers, debounceTimer)
  /\ debounceTimer' = Null
  /\ UNCHANGED <<pc, engineLog, managerOptions, now, tree, hookVars>>

NotifyNext ==
  \/ NotifySubscribe
  \/ NotifyUnsubscribe
  \/ NotifyForceLayout

NotifySpec == NotifyInit /\ [][NotifyNext]_vars

----------------------------------------------------------------------------
(* treeLayout step by step: one action per pass of its while loop *)

TreeOptionChoices ==
  { [NoOptions EXCEPT !.algorithm = "tree"],
    [NoOptions EXCEPT !.algorithm = "tree", !.centerX = 100, !.centerY = 100] }

\* The locals of treeLayout once the queue holds the roots (lines 133-169).
TreeLocals(e, c) ==
  [arr      |-> c.ah[c.arr],
   result   |-> c.arr,
   edges    |-> e.engine.edges,
   options  |-> e.engine.options,
   roots    |-> RootNodes(nodeHeap, c.ah[c.arr], e.engine.edges),
   queue    |-> RootQueue(RootNodes(nodeHeap, c.ah[c.arr], e.engine.edges),
                          e.engine.options),
   visited  |-> {},
   written  |-> <<>>,    \* the nodes whose position was assigned, in order
   pushed   |-> <<>>,    \* the entries the last pass pushed
   skipped  |-> 0,       \* passes that ended at `continue`
   queued   |-> RootQueue(RootNodes(nodeHeap, c.ah[c.arr], e.engine.edges),
                          e.engine.options),    \* every entry pushed so far
   step     |-> "start"] \* the last step: "start", "skip" or "visit"

\* new CustomLayoutEngine(nodes, edges, {algorithm: 'tree'}).layout() up to
\* the while loop.
TreeEntered(options, e) ==
  /\ tree' = TreeLocals(e, CopyArray(e.ah, e.engine.nodes))
  /\ arrHeap' = CopyArray(e.ah, e.engine.nodes).ah
  /\ call' = [op |-> "applyCustomLayout", options |-> options, data |-> InputData,
              algorithm |-> "tree"]

TreeStart ==
  /\ pc = "idle"
  /\ \E options \in TreeOptionChoices :
       TreeEntered(options,
                   NewEngine(arrHeap, dataHeap[InputData].nodes, dataHeap[InputData].edges,
                             options))
  /\ pre' = Snapshot
  /\ pc' = "tree-loop"
  /\ UNCHANGED <<nodeHeap, dataHeap, ret, engineLog, managerVars, hookVars>>

\* Lines 172-174: the entry taken from the queue is of a visited node.
TreeSkip ==
  /\ pc = "tree-loop"
  /\ tree.queue # <<>>
  /\ nodeHeap[Head(tree.queue).node].id \in tree.visited
  /\ tree' = [tree EXCEPT !.queue = Tail(@), !.pushed = <<>>, !.skipped = @ + 1,
                           !.step = "skip"]
  /\ UNCHANGED <<nodeHeap, arrHeap, dataHeap, pc, call, ret, pre, engineLog, managerVars, hookVars>>

\* The entries pushed for the children of the node of entry e (lines 181-195).
PushedFor(e) ==
  ChildEntries(nodeHeap, tree.arr, Children(tree.edges, nodeHeap[e.node].id), 1,
               tree.visited \cup {nodeHeap[e.node].id}, e.x, e.y)

\* Lines 172-195: the entry taken from the queue is of a node not yet visited.
TreeVisit ==
  /\ pc = "tree-loop"
  /\ tree.queue # <<>>
  /\ nodeHeap[Head(tree.queue).node].id \notin tree.visited
  /\ nodeHeap' = [nodeHeap EXCEPT ![Head(tree.queue).node].x = Head(tree.queue).x,
                                  ![Head(tree.queue).node].y = Head(tree.queue).y]
  /\ tree' = [tree EXCEPT
                !.queue = Tail(@) \o PushedFor(Head(tree.queue)),
                !.pushed = PushedFor(Head(tree.queue)),
                !.visited = @ \cup {nodeHeap[Head(tree.queue).node].id},
                !.written = Append(@, Head(tree.queue).node),
                !.queued = @ \o PushedFor(Head(tree.queue)),
                !.step = "visit"]
  /\ UNCHANGED <<arrHeap, dataHeap, pc, call, ret, pre, engineLog, managerVars, hookVars>>

\* Lines 171 and 198: the queue is empty, the nodes are returned.
TreeReturn ==
  /\ pc = "tree-loop"
  /\ tree.queue = <<>>
  /\ ret' = [k |-> "nodes", arr |-> tree.result]
  /\ pc' = "done"
  /\ UNCHANGED <<nodeHeap, arrHeap, dataHeap, call, pre, engineLog, managerVars, tree, hookVars>>

TreeNext ==
  \/ TreeStart
  \/ TreeSkip
  \/ TreeVisit
  \/ TreeReturn

\* A call that has started keeps running: the loop is synchronous.
TreeSpec == Init /\ [][TreeNext]_vars /\ WF_vars(TreeNext)

----------------------------------------------------------------------------
(* gridLayout on diagrams of up to MaxGridNodes nodes *)

GridNodeIds == <<"A", "B", "C", "D", "E", "F", "G", "H", "I", "J", "K", "L">>

\* Where the nodes are before the layout: all at one point, or scattered.
GridPosChoices ==
  { [i \in 1..Len(GridNodeIds) |-> Pos(0, 0)],
    [i \in 1..Len(GridNodeIds) |-> Pos(((i * 370) % 900) - 100, (i * 530) % 700)] }

\* {algorithm: 'grid'} alone, or with both centerX and centerY given.
GridOptionChoices ==
  { [NoOptions EXCEPT !.algorithm = "grid"],
    [NoOptions EXCEPT !.algorithm = "grid", !.centerX = 100, !.centerY = 100],
    [NoOptions EXCEPT !.algorithm = "grid", !.centerX = 75, !.centerY = -50],
    [NoOptions EXCEPT !.algorithm = "grid", !.centerX = 0, !.centerY = -50] }

GridInit ==
  /\ \E n \in 0..MaxGridNodes :
       \E pos \in GridPosChoices :
         /\ nodeHeap = [i \in 1..n |->
                          Node(GridNodeIds[i], pos[i].x, pos[i].y, NodeSize(i).w, NodeSize(i).h)]
         /\ arrHeap = << [i \in 1..n |-> i] >>
  /\ \E edges \in {<<>>, <<Edge("e1", "A", "B"), Edge("e2", "B", "X")>>} :
       dataHeap = << [nodes |-> 1, edges |-> edges,
                      layout |-> LayoutConfig("custom", "top-bottom", GoodSpacing),
                      updatedAt |-> 0] >>
  /\ pc = "idle"
  /\ call = Null
  /\ ret = Null
  /\ pre = Null
  /\ engineLog = Null
  /\ debounceTimer = Null
  /\ listeners = <<>>
  /\ notified = <<>>
  /\ managerOptions = DefaultOptions
  /\ timers = {}
  /\ now = 0
  /\ computed = <<>>
  /\ hist = NoHistory
  /\ tree = Null
  /\ geo = Null
  /\ undoRedo = Null

\* What applyCustomLayout leaves and returns, l being what layout() gave.
CustomReturned(l) ==
  /\ nodeHeap' = l.nh
  /\ arrHeap' = l.ah
  /\ ret' = [k |-> "nodes", arr |-> l.arr]

\* applyCustomLayout(data.nodes, data.edges, data.layout, {algorithm: 'grid', ...})
GridLayoutCall ==
  /\ pc = "idle"
  /\ \E options \in GridOptionChoices :
       /\ CustomReturned(applyCustomLayout(nodeHeap, arrHeap, dataHeap[InputData].nodes,
                                           dataHeap[InputData].edges,
                                           dataHeap[InputData].layout, options, NoDraws))
       /\ call' = [op |-> "applyCustomLayout", options |-> options, data |-> InputData,
                   algorithm |-> "grid"]
  /\ pre' = Snapshot
  /\ pc' = "done"
  /\ UNCHANGED <<dataHeap, engineLog, managerVars, tree, hookVars>>

GridSpec == GridInit /\ [][GridLayoutCall]_vars

----------------------------------------------------------------------------
(* GeometryUtils.getLineIntersection (src/lib/utils/geometry.ts)            *)
(*                                                                         *)
(* The end points are integers, so denom and the numerators of t and u are *)
(* integers and |denom| < 1e-10 means denom = 0.  t, u and the returned    *)
(* coordinates are kept as exact fractions [n, d] with d > 0.              *)

GeoUnit == 5

Frac(n, d) == IF d < 0 THEN [n |-> -n, d |-> -d] ELSE [n |-> n, d |-> d]

\* 0 <= f <= 1
InUnitInterval(f) == f.n >= 0 /\ f.n <= f.d

\* The bounds on u are not tested: the second segment is taken as a line.
getLineIntersection_SecondUnbounded(line1Start, line1End, line2Start, line2End) ==
  LET x1 == line1Start.x
      y1 == line1Start.y
      x2 == line1End.x
      y2 == line1End.y
      x3 == line2Start.x
      y3 == line2Start.y
      x4 == line2End.x
      y4 == line2End.y
      denom == (x1 - x2) * (y3 - y4) - (y1 - y2) * (x3 - x4)
      t == Frac((x1 - x3) * (y3 - y4) - (y1 - y3) * (x3 - x4), denom)
  IN  IF denom = 0 THEN Null
      ELSE IF InUnitInterval(t)
           THEN [k |-> "position",
                 x |-> Frac(x1 * t.d + t.n * (x2 - x1), t.d),
                 y |-> Frac(y1 * t.d + t.n * (y2 - y1), t.d)]
           ELSE Null

getLineIntersection(line1Start, line1End, line2Start, line2End) ==
  LET x1 == line1Start.x
      y1 == line1Start.y
      x2 == line1End.x
      y2 == line1End.y
      x3 == line2Start.x
      y3 == line2Start.y
      x4 == line2End.x
      y4 == line2End.y
      denom == (x1 - x2) * (y3 - y4) - (y1 - y2) * (x3 - x4)
      t == Frac((x1 - x3) * (y3 - y4) - (y1 - y3) * (x3 - x4), denom)
      u == Frac(-((x1 - x2) * (y1 - y3) - (y1 - y2) * (x1 - x3)), denom)
  IN  IF denom = 0 THEN Null
      ELSE IF InUnitInterval(t) /\ InUnitInterval(u)
           THEN [k |-> "position",
                 x |-> Frac(x1 * t.d + t.n * (x2 - x1), t.d),
                 y |-> Frac(y1 * t.d + t.n * (y2 - y1), t.d)]
           ELSE Null

GeoCoords == {GeoUnit * i : i \in 0..MaxCoord}
GeoPoints == {Pos(x, y) : x \in GeoCoords, y \in GeoCoords}

\* No diagram is being laid out and no manager is in use.
NoDiagram ==
  /\ nodeHeap = <<>>
  /\ arrHeap = <<>>
  /\ dataHeap = <<>>
  /\ pc = "idle"
  /\ call = Null
  /\ ret = Null
  /\ pre = Null
  /\ engineLog = Null
  /\ debounceTimer = Null
  /\ listeners = <<>>
  /\ notified = <<>>
  /\ managerOptions = DefaultOptions
  /\ timers = {}
  /\ now = 0
  /\ computed = <<>>
  /\ hist = NoHistory
  /\ tree = Null

GeoInit ==
  /\ NoDiagram
  /\ undoRedo = Null
  /\ geo \in {[line1Start |-> a, line1End |-> b, line2Start |-> c, line2End |-> d,
               result |-> Undefined] : a \in GeoPoints, b \in GeoPoints,
                                       c \in GeoPoints, d \in GeoPoints}

GetLineIntersection ==
  /\ pc = "idle"
  /\ geo' = [geo EXCEPT !.result = getLineIntersection(geo.line1Start, geo.line1End,
                                                       geo.line2Start, geo.line2End)]
  /\ pc' = "done"
  /\ UNCHANGED <<nodeHeap, arrHeap, dataHeap, call, ret, pre, engineLog, managerVars,
                 tree, undoRedo>>

GeoSpec == GeoInit /\ [][GetLineIntersection]_vars

----------------------------------------------------------------------------
(* useUndoRedo (src/unnamed/part_005) as useDiagram creates it              *)
(* (src/lib/hooks/useDiagram.ts lines 43-72)                                *)
(*                                                                         *)
(* setHistory(f) hands React an updater f.  React runs it either at once   *)
(* (when no update is pending it may compute the next state eagerly) or    *)
(* when the component next renders; the assignments to skipRecording.current*)
(* inside undo's and redo's updaters happen when the updater runs.         *)

DefaultMaxHistorySize == 50

\* SmartDiagramData values: the initial data and the data of later changes.
InitialData == "d0"
DataChoices == {"d1", "d2"}

\* useDiagram({maxHistorySize}): the depth a caller asks for, or the default.
HistorySizeChoices == {1, 2, DefaultMaxHistorySize}

HistoryState(past, present, future) ==
  [past |-> past, present |-> present, future |-> future]

\* Lines 25-29: the updater of recordChange.  useDiagram's maxHistorySize is
\* not among its inputs: useDiagram.ts line 72 passes only the data.
RecordUpdater(prevHistory, newData) ==
  HistoryState(Append(prevHistory.past, prevHistory.present), newData, <<>>)

\* Lines 33-46: the updater of undo.
UndoUpdater(prevHistory) ==
  IF Len(prevHistory.past) = 0 THEN prevHistory
  ELSE HistoryState(SubSeq(prevHistory.past, 1, Len(prevHistory.past) - 1),
                    prevHistory.past[Len(prevHistory.past)],
                    <<prevHistory.present>> \o prevHistory.future)

\* Lines 50-63: the updater of redo.
RedoUpdater(prevHistory) ==
  IF Len(prevHistory.future) = 0 THEN prevHistory
  ELSE HistoryState(Append(prevHistory.past, prevHistory.present),
                    prevHistory.future[1],
                    Tail(prevHistory.future))

\* Lines 39 and 56: the updater reaches `skipRecording.current = true`.
SetsSkipRecording(update, prevHistory) ==
  \/ update.op = "undo" /\ Len(prevHistory.past) # 0
  \/ update.op = "redo" /\ Len(prevHistory.future) # 0

\* The state one update gives: an updater applied to the state before it, or
\* the object handed to setHistory by reset (lines 70-74).
Updated(update, prevHistory) ==
  CASE update.op = "recordChange" -> RecordUpdater(prevHistory, update.data)
    [] update.op = "undo" -> UndoUpdater(prevHistory)
    [] update.op = "redo" -> RedoUpdater(prevHistory)
    [] update.op = "reset" -> HistoryState(<<>>, update.data, <<>>)

\* React processing the pending updates in order.  An update computed
\* eagerly carries its state and its updater is not run again.
RECURSIVE Flush(_, _, _)
Flush(history, skipRecording, queue) ==
  IF queue = <<>> THEN [history |-> history, skipRecording |-> skipRecording]
  ELSE LET update == queue[1]
       IN  IF update.eager # Null
           THEN Flush(update.eager, skipRecording, Tail(queue))
           ELSE Flush(Updated(update, history),
                      skipRecording \/ SetsSkipRecording(update, history),
                      Tail(queue))

\* The history once every pending update has been processed.
Settled(h) == Flush(h.history, h.skipRecording, h.queue).history

\* setHistory(...) called with `update`.
SetHistory(h, update, eager) ==
  IF eager
  THEN LET next == Updated(update, h.history)
       IN  [h EXCEPT
              !.skipRecording = @ \/ SetsSkipRecording(update, h.history),
              \* an updater that returns the state it was given schedules nothing
              !.queue = IF next = h.history /\ update.op # "reset" THEN <<>>
                        ELSE <<[update EXCEPT !.eager = next]>>]
  ELSE [h EXCEPT !.queue = Append(@, update)]

Update(op, data) == [op |-> op, data |-> data, eager |-> Null]

\* React may compute the next state at once only when no update is pending.
EagerChoices(h) == IF h.queue = <<>> THEN BOOLEAN ELSE {FALSE}

\* The call just made, with the settled history and the flag it found.
Called(h, op, data) ==
  [op |-> op, data |-> data, before |-> Settled(h), skipped |-> h.skipRecording]

UndoInit ==
  /\ NoDiagram
  /\ geo = Null
  /\ undoRedo \in {[history |-> HistoryState(<<>>, InitialData, <<>>),
                    skipRecording |-> FALSE,
                    queue |-> <<>>,
                    maxHistorySize |-> max,
                    calls |-> 0,
                    last |-> Null] : max \in HistorySizeChoices}

HookFrame ==
  UNCHANGED <<nodeHeap, arrHeap, dataHeap, pc, call, ret, pre, engineLog, managerVars,
              tree, geo>>

\* recordChange(newData), lines 19-30
RecordChange ==
  /\ undoRedo.calls < MaxHookCalls
  /\ \E newData \in DataChoices :
       LET h == [undoRedo EXCEPT !.calls = @ + 1,
                                 !.last = Called(undoRedo, "recordChange", newData)]
       IN  IF undoRedo.skipRecording
           THEN undoRedo' = [h EXCEPT !.skipRecording = FALSE]
           ELSE \E eager \in EagerChoices(undoRedo) :
                  undoRedo' = SetHistory(h, Update("recordChange", newData), eager)
  /\ HookFrame

\* undo(), lines 32-47
Undo ==
  /\ undoRedo.calls < MaxHookCalls
  /\ \E eager \in EagerChoices(undoRedo) :
       undoRedo' = SetHistory([undoRedo EXCEPT !.calls = @ + 1,
                                               !.last = Called(undoRedo, "undo", Null)],
                              Update("undo", Null), eager)
  /\ HookFrame

\* redo(), lines 49-64
Redo ==
  /\ undoRedo.calls < MaxHookCalls
  /\ \E eager \in EagerChoices(undoRedo) :
       undoRedo' = SetHistory([undoRedo EXCEPT !.calls = @ + 1,
                                               !.last = Called(undoRedo, "redo", Null)],
                              Update("redo", Null), eager)
  /\ HookFrame

\* reset(newData = initialData), lines 69-75
Reset ==
  /\ undoRedo.calls < MaxHookCalls
  /\ \E newData \in {InitialData} \cup DataChoices :
     \E eager \in EagerChoices(undoRedo) :
       undoRedo' = SetHistory([undoRedo EXCEPT !.calls = @ + 1,
                                               !.last = Called(undoRedo, "reset", newData)],
                              Update("reset", newData), eager)
  /\ HookFrame

\* The component renders: React processes the pending updates.
Render ==
  /\ undoRedo.queue # <<>>
  /\ LET f == Flush(undoRedo.history, undoRedo.skipRecording, undoRedo.queue)
     IN  undoRedo' = [undoRedo EXCEPT !.history = f.history,
                                      !.skipRecording = f.skipRecording,
                                      !.queue = <<>>]
  /\ HookFrame

UndoNext ==
  \/ RecordChange
  \/ Undo
  \/ Redo
  \/ Reset
  \/ Render

UndoSpec == UndoInit /\ [][UndoNext]_vars

----------------------------------------------------------------------------
(* forceDirectedLayout and organicLayout on nodes that start anywhere, with *)
(* the options a caller can give                                           *)

\* Where the nodes are before the layout: far outside [-1000, 2000], or
\* inside it with two nodes at one point.
ForcePosLists ==
  { <<Pos(2500, -1500), Pos(-3000, 4000), Pos(2000, -1000), Pos(0, 0), Pos(2100, 50)>>,
    <<Pos(110, 60), Pos(110, 60), Pos(0, 0), Pos(1990, -990), Pos(50, 50)>> }

\* iterations -1 is a number like any other: `-1 || 100` is -1.  0 stands
\* for an option left out.  attraction 2 with damping 1.5 makes the
\* positions oscillate ever wider.
ForceOptionChoices ==
  { [NoOptions EXCEPT !.algorithm = "force", !.iterations = i, !.repulsion = r,
                      !.attraction1000 = a, !.damping100 = d] :
      i \in {-1, 1, 2}, r \in {0, 20000}, a \in {0, 2000}, d \in {0, 150} }
  \cup { [NoOptions EXCEPT !.algorithm = "force"],
         [NoOptions EXCEPT !.algorithm = "force", !.iterations = 6,
                           !.attraction1000 = 2000, !.damping100 = 150],
         [NoOptions EXCEPT !.algorithm = "organic", !.iterations = -1] }

ForceInit ==
  /\ \E n \in 0..MaxNodes :
       \E pos \in ForcePosLists :
         /\ nodeHeap = [i \in 1..n |->
                          Node(NodeIds[i], pos[i].x, pos[i].y, NodeSize(i).w, NodeSize(i).h)]
         /\ arrHeap = << [i \in 1..n |-> i] >>
  /\ \E edges \in {<<>>, <<Edge("e1", "A", "B")>>,
                   <<Edge("e1", "A", "B"), Edge("e2", "B", "C")>>} :
       dataHeap = << [nodes |-> 1, edges |-> edges,
                      layout |-> LayoutConfig("flowchart", "top-bottom", GoodSpacing),
                      updatedAt |-> 0] >>
  /\ pc = "idle"
  /\ call = Null
  /\ ret = Null
  /\ pre = Null
  /\ engineLog = Null
  /\ debounceTimer = Null
  /\ listeners = <<>>
  /\ notified = <<>>
  /\ managerOptions = DefaultOptions
  /\ timers = {}
  /\ now = 0
  /\ computed = <<>>
  /\ hist = NoHistory
  /\ tree = Null
  /\ geo = Null
  /\ undoRedo = Null

\* applyCustomLayout(data.nodes, data.edges, data.layout, options) with
\* algorithm 'force' or 'organic'
ForceDirectedCall ==
  /\ pc = "idle"
  /\ \E options \in ForceOptionChoices :
     \E draws \in DrawsFor(options.algorithm) :
       /\ CustomReturned(applyCustomLayout(nodeHeap, arrHeap, dataHeap[InputData].nodes,
                                           dataHeap[InputData].edges,
                                           dataHeap[InputData].layout, options, draws))
       /\ call' = [op |-> "applyCustomLayout", options |-> options, data |-> InputData,
                   algorithm |-> options.algorithm]
  /\ pre' = Snapshot
  /\ pc' = "done"
  /\ UNCHANGED <<dataHeap, engineLog, managerVars, tree, hookVars>>

ForceSpec == ForceInit /\ [][ForceDirectedCall]_vars

----------------------------------------------------------------------------
(* Properties *)

InputNodes == pre.ah[pre.dh[InputData].nodes]
InputEdges == pre.dh[InputData].edges

ManagerCall == pc = "done" /\ call.op \in {"applyLayout", "autoLayout"}
CustomCall == pc = "done" /\ call.op \in {"applyCustomLayout", "forceLayout"}

\* The array of nodes a finished call returned.
ReturnedNodes == IF ret.k = "data" THEN arrHeap[dataHeap[ret.ref].nodes] ELSE arrHeap[ret.arr]

PosOf(nh, arr) == [i \in 1..Len(arr) |-> Pos(nh[arr[i]].x, nh[arr[i]].y)]
SizeOf(nh, arr) == [i \in 1..Len(arr) |-> <<nh[arr[i]].w, nh[arr[i]].h>>]

\* C1: whenever applyLayout with engine 'dagre' or 'elkjs' returns data for a
\* non-empty diagram, the least x and the least y over the returned nodes
\* are both 50, whatever the engine produced.
C1_MinCornerAtPadding ==
  (/\ ManagerCall
   /\ call.engine \in {"dagre", "elkjs"}
   /\ ret.k = "data"
   /\ Len(InputNodes) > 0)
  => /\ MinX(nodeHeap, ReturnedNodes) = 50
     /\ MinY(nodeHeap, ReturnedNodes) = 50

\* A dagre layout of several nodes whose least corner, as the engine
\* returned it, was not at (50, 50), and which has been returned centered.
C1_Witness ==
  /\ ManagerCall
  /\ call.engine = "dagre"
  /\ ret.k = "data"
  /\ Len(InputNodes) > 1
  /\ MinX(nodeHeap, arrHeap[engineLog.out.arr]) # 50
  /\ MinY(nodeHeap, arrHeap[engineLog.out.arr]) # 50

\* C2: applyLayout leaves every object that existed when it was called as it
\* was (the data object, its nodes array, every node), while it runs and
\* after it returned; when it returns new data, that is a new object whose
\* nodes array and nodes are all new.
C2_InputNotMutated ==
  (pc \in {"elk-await", "done"} /\ call.op \in {"applyLayout", "autoLayout"})
  => /\ \A r \in 1..Len(pre.nh) : nodeHeap[r] = pre.nh[r]
     /\ \A a \in 1..Len(pre.ah) : arrHeap[a] = pre.ah[a]
     /\ \A d \in 1..Len(pre.dh) : dataHeap[d] = pre.dh[d]
     /\ (pc = "done" /\ ret.k = "data" /\ ret.ref # call.data)
        => /\ ret.ref > Len(pre.dh)
           /\ dataHeap[ret.ref].nodes > Len(pre.ah)
           /\ \A i \in 1..Len(ReturnedNodes) : ReturnedNodes[i] > Len(pre.nh)

\* An elkjs layout whose solver failed, so that the engine handed the input
\* nodes themselves to the centering step, which returned them moved.
C2_Witness ==
  /\ ManagerCall
  /\ call.engine = "elkjs"
  /\ ret.k = "data"
  /\ engineLog # Null
  /\ engineLog.solverThrew
  /\ engineLog.out.arr = pre.dh[InputData].nodes
  /\ PosOf(nodeHeap, ReturnedNodes) # PosOf(pre.nh, InputNodes)

\* C3: after a custom layout (applyCustomLayout, forceLayout) every node
\* object the caller passed in has the position it had before the call.
C3_CustomKeepsInputPositions ==
  CustomCall => PosOf(nodeHeap, InputNodes) = PosOf(pre.nh, InputNodes)

\* C4: every layout operation that returns gives back as many nodes as it
\* was given, with the same ids in the same order and the same sizes, and
\* the same edges; this holds of the array an external-solver engine returns
\* as well.
SameNodes(arr) ==
  /\ Ids(nodeHeap, arr) = Ids(pre.nh, InputNodes)
  /\ SizeOf(nodeHeap, arr) = SizeOf(pre.nh, InputNodes)

C4_OnlyPositionsChange ==
  pc = "done"
  => /\ ret.k \in {"data", "nodes"} => SameNodes(ReturnedNodes)
     /\ ret.k = "data" => dataHeap[ret.ref].edges = InputEdges
     /\ dataHeap[call.data].edges = InputEdges
     /\ (engineLog # Null /\ engineLog.out.k = "nodes") => SameNodes(arrHeap[engineLog.out.arr])

\* A forced layout of a diagram of several nodes with edges that moved a node.
C4_Witness ==
  /\ pc = "done"
  /\ call.op = "forceLayout"
  /\ Len(InputNodes) > 1
  /\ Len(InputEdges) > 0
  /\ PosOf(nodeHeap, ReturnedNodes) # PosOf(pre.nh, InputNodes)

\* C5: applyLayout with engine 'none', or with no nodes, returns the very
\* object it was given, reaches no engine and changes no object.
C5_IdentityOnNoneOrEmpty ==
  (/\ pc = "done"
   /\ call.op = "applyLayout"
   /\ (call.engine = "none" \/ Len(InputNodes) = 0))
  => /\ ret = [k |-> "data", ref |-> call.data]
     /\ engineLog = Null
     /\ nodeHeap = pre.nh
     /\ arrHeap = pre.ah
     /\ dataHeap = pre.dh

\* applyLayout(data, 'dagre') has returned for a diagram without nodes.
C5_Witness ==
  /\ pc = "done"
  /\ call.op = "applyLayout"
  /\ call.engine = "dagre"
  /\ Len(InputNodes) = 0
  /\ ret.k = "data"

\* C6: when the solver throws inside an engine, the engine returns the input
\* nodes at their original positions and applyLayout does not throw.
C6_EnginesFailOpen ==
  (pc = "done" /\ engineLog # Null /\ engineLog.solverThrew)
  => /\ engineLog.out.k = "nodes"
     /\ PosOf(nodeHeap, arrHeap[engineLog.out.arr]) = PosOf(pre.nh, InputNodes)
     /\ ret.k # "throw"

\* C7: when the solver failed and applyLayout returned data, every returned
\* node is at the position it had in the input.
C7_FailureKeepsPositions ==
  (/\ ManagerCall
   /\ engineLog # Null
   /\ engineLog.solverThrew
   /\ ret.k = "data")
  => PosOf(nodeHeap, ReturnedNodes) = PosOf(pre.nh, InputNodes)

\* C8: no engine is reached with a configuration that validateConfig rejects.
C8_InvalidConfigReachesNoEngine ==
  engineLog # Null => validateConfig(engineLog.config)

\* C9: every edge handed to a solver has both its endpoints among the nodes
\* handed to it.
C9_SolverGetsNoDanglingEdge ==
  (engineLog # Null /\ engineLog.solver # Null)
  => \A i \in 1..Len(engineLog.solver.edges) :
       /\ engineLog.solver.edges[i][1] \in Range(engineLog.solver.nodes)
       /\ engineLog.solver.edges[i][2] \in Range(engineLog.solver.nodes)

\* The edges whose source and target are both ids of nodes of the array.
RECURSIVE Attached(_, _)
Attached(edges, ids) ==
  IF edges = <<>> THEN <<>>
  ELSE (IF Head(edges).source \in ids /\ Head(edges).target \in ids
        THEN <<Head(edges)>> ELSE <<>>)
       \o Attached(Tail(edges), ids)

\* The positions applyCustomLayout gives the input with its dangling edges removed.
WithoutDangling ==
  LET data == pre.dh[InputData]
      l == applyCustomLayout(pre.nh, pre.ah, data.nodes,
                             Attached(data.edges, IdSet(pre.nh, InputNodes)),
                             data.layout, call.options, NoDraws)
  IN  PosOf(l.nh, l.ah[l.arr])

\* C10: with the force, tree, circular or grid algorithm, the positions
\* returned for a diagram are those returned for the same diagram without
\* its dangling edges.
C10_DanglingEdgeIgnored ==
  (/\ pc = "done"
   /\ call.op = "applyCustomLayout"
   /\ call.algorithm \in {"force", "tree", "circular", "grid"})
  => PosOf(nodeHeap, ReturnedNodes) = WithoutDangling

\* The positions of the nodes a layout returned.
LayoutPositions(l) == PosOf(l.nh, l.ah[l.arr])

\* The positions applyCustomLayout gives the diagram of the last call, taken
\* as it was when the call was made, when Math.random() yields draws.
RerunWith(draws) ==
  LayoutPositions(applyCustomLayout(pre.nh, pre.ah, pre.dh[InputData].nodes, InputEdges,
                                    pre.dh[InputData].layout, call.options, draws))

----------------------------------------------------------------------------
(* Properties of treeLayout (TreeSpec) *)

InTree == pc \in {"tree-loop", "done"} /\ tree # Null

NoRepeat(seq) == \A i, j \in 1..Len(seq) : seq[i] = seq[j] => i = j

\* No entry pushed by the last pass is of a visited node, no node has had
\* its position assigned twice, and every node whose position was not
\* assigned is as it was when the layout was called.
TreeLoopSafe ==
  InTree
  => /\ \A i \in 1..Len(tree.pushed) : nodeHeap[tree.pushed[i].node].id \notin tree.visited
     /\ NoRepeat(tree.written)
     /\ \A r \in 1..Len(nodeHeap) : r \notin Range(tree.written) => nodeHeap[r] = pre.nh[r]

\* C18: a tree layout that has been called returns, whatever the edges
\* (cycles, self-loops, duplicates, several parents), and all along no
\* visited child is pushed again, no node is positioned twice and a node
\* that is never taken unvisited from the queue keeps its input position.
C18_TreeTerminates == <>(pc = "done") /\ []TreeLoopSafe

\* A tree layout has returned for a diagram with a node that has two
\* parents, after taking that node from the queue a second time.
C18_Witness ==
  /\ pc = "done"
  /\ tree # Null
  /\ tree.skipped > 0
  /\ \E i, j \in 1..Len(tree.edges) :
       /\ i # j
       /\ tree.edges[i].target = tree.edges[j].target
       /\ tree.edges[i].source # tree.edges[j].source

\* The nodes of arr whose id is the target of no edge, in the order of arr.
NonTargets(nh, arr, edges) ==
  SelectSeq(arr, LAMBDA r : \A i \in 1..Len(edges) : edges[i].target # nh[r].id)

\* The ids that a path of edges through nodes of arr leads to from ids.
RECURSIVE ReachableFrom(_, _, _)
ReachableFrom(ids, nodeIds, edges) ==
  IF \E i \in 1..Len(edges) :
       /\ edges[i].source \in ids
       /\ edges[i].target \in nodeIds \ ids
  THEN ReachableFrom(ids \cup { edges[i].target : i \in { j \in 1..Len(edges) :
                                                          /\ edges[j].source \in ids
                                                          /\ edges[j].target \in nodeIds } },
                     nodeIds, edges)
  ELSE ids

\* C19: the roots of a tree layout are the nodes that are the target of no
\* edge, in input order, or the first node alone when every node is a
\* target; when the layout returns, every node that a path of edges leads
\* to from a root has been visited and had its position assigned.
C19_TreeRoots ==
  InTree
  => /\ tree.roots =
          IF NonTargets(pre.nh, tree.arr, tree.edges) = <<>> /\ tree.arr # <<>>
          THEN <<tree.arr[1]>>
          ELSE NonTargets(pre.nh, tree.arr, tree.edges)
     /\ pc = "done"
        => \A i \in 1..Len(tree.arr) :
             nodeHeap[tree.arr[i]].id
               \in ReachableFrom({ nodeHeap[tree.roots[j]].id : j \in 1..Len(tree.roots) },
                                 IdSet(nodeHeap, tree.arr), tree.edges)
             => /\ nodeHeap[tree.arr[i]].id \in tree.visited
                /\ tree.arr[i] \in Range(tree.written)

\* A tree layout has returned for a diagram in which every node is the
\* target of an edge: the first node was the root, and the other node of
\* its cycle was positioned below it.
C19_Witness ==
  /\ pc = "done"
  /\ tree # Null
  /\ Len(tree.arr) >= 2
  /\ NonTargets(pre.nh, tree.arr, tree.edges) = <<>>
  /\ tree.written = <<tree.arr[1], tree.arr[2]>>

----------------------------------------------------------------------------
(* Properties of gridLayout (GridSpec) *)

\* The least c with c * c >= n, and the least r with r * c >= n.
LeastSide(n) == CHOOSE c \in 1..n : c * c >= n /\ (c - 1) * (c - 1) < n
LeastRows(n, c) == CHOOSE r \in 1..n : r * c >= n /\ (r - 1) * c < n

\* C20: a grid layout of n >= 1 nodes puts the k-th node (from 0, in input
\* order) k mod c columns right of and floor(k / c) rows below the first
\* node, c being ceil(sqrt(n)); the rows used number ceil(n / c) and no two
\* nodes are at the same place.
C20_GridRowMajor ==
  (/\ pc = "done"
   /\ call.algorithm = "grid"
   /\ Len(ReturnedNodes) >= 1)
  => LET n == Len(ReturnedNodes)
         c == LeastSide(n)
         at == PosOf(nodeHeap, ReturnedNodes)
     IN  /\ \A k \in 0..(n - 1) :
              /\ at[k + 1].x - at[1].x = (k % c) * GridSpacingX
              /\ at[k + 1].y - at[1].y = (k \div c) * GridSpacingY
         /\ Cardinality({ at[k].y : k \in 1..n }) = LeastRows(n, c)
         /\ \A j, k \in 1..n : at[j] = at[k] => j = k

\* A grid layout of nodes that all started at one point has returned with
\* three columns and a last row that is not full.
C20_Witness ==
  /\ pc = "done"
  /\ call.algorithm = "grid"
  /\ Len(ReturnedNodes) \in {5, 7, 8}
  /\ \A k \in 1..Len(InputNodes) : pre.nh[InputNodes[k]].x = 0

----------------------------------------------------------------------------
(* Properties of one AutoLayoutManager (AutoSpec) *)

LastCall(op) == call # Null /\ call.op = op

\* The runs of the private applyLayout made by a timeout callback.
TimerRuns == { i \in 1..Len(computed) : computed[i].cause = "timer" }

\* The callbacks invoked between the start of run i and the next run.
RoundOf(i) ==
  SubSeq(notified, computed[i].from + 1,
         IF i < Len(computed) THEN computed[i + 1].from ELSE Len(notified))

\* One call of every callback subscribed when run i was made, in order, each
\* with the data that run produced.
FullRound(i) ==
  [j \in 1..Len(computed[i].listeners) |->
     [callback |-> computed[i].listeners[j], data |-> computed[i].out]]

\* C11: at most one timeout is pending, it is the one of the last accepted
\* trigger and is due debounceMs after it; every layout a timeout computes
\* closes a burst of at least one accepted trigger, is computed no earlier
\* than debounceMs after the last of them, from the data of the last of
\* them, and is followed by one round of notifications.
C11_DebounceCoalesces ==
  /\ Cardinality(timers) <= 1
  /\ \A t \in timers :
       /\ debounceTimer = t.id
       /\ hist.burst >= 1
       /\ t.data = hist.accepted.data
       /\ t.due = hist.accepted.at + hist.accepted.debounceMs
  /\ timers = {} => hist.burst = 0
  /\ \A i \in TimerRuns :
       /\ computed[i].burst >= 1
       /\ computed[i].data = computed[i].accepted.data
       /\ computed[i].at >= computed[i].accepted.at + computed[i].accepted.debounceMs
       /\ RoundOf(i) = FullRound(i)

\* A timeout has computed the layout for a burst of two accepted triggers
\* and has notified a subscriber.
C11_Witness ==
  \E i \in TimerRuns :
    /\ computed[i].burst >= 2
    /\ computed[i].listeners # <<>>
    /\ RoundOf(i) # <<>>

\* C12: as long as every trigger came while the manager was disabled or the
\* flag of its change type was false, and forceLayout was not called, no
\* timeout has been set, no layout computed and no callback invoked.
C12_GatedTriggerSchedulesNothing ==
  (~hist.gateOpen /\ ~hist.forced)
  => /\ timers = {}
     /\ debounceTimer = Null
     /\ hist.timerSeq = 0
     /\ computed = <<>>
     /\ notified = <<>>

\* With a subscriber present, a trigger was turned away and more than the
\* debounce delay has passed since.
C12_Witness ==
  /\ LastCall("triggerAutoLayout")
  /\ ~call.accepted
  /\ ~hist.gateOpen
  /\ ~hist.forced
  /\ listeners # <<>>
  /\ now > call.at + managerOptions.debounceMs

\* C13: right after setEnabled(false) no timeout is pending, and no timeout
\* that was pending when setEnabled(false) was called ever computes a layout.
C13_DisableCancelsPending ==
  /\ (LastCall("setEnabled") /\ ~call.enabled) => timers = {}
  /\ \A i \in TimerRuns : computed[i].timer \notin hist.pendingAtDisable

\* C14: once destroy() has been called no callback is invoked any more, and
\* no timeout that was pending at that time computes a layout.
C14_NothingAfterDestroy ==
  hist.destroyedAt # -1
  => /\ Len(notified) = hist.destroyedAt
     /\ \A i \in TimerRuns : computed[i].timer \notin hist.pendingAtDestroy

\* The positions applyCustomLayout gives the diagram of the last call, taken
\* as it was when the call was made, under the configuration the private
\* applyLayout selects for its type.
SelectedLayout ==
  LET data == pre.dh[call.data]
      l == applyCustomLayout(pre.nh, pre.ah, data.nodes, data.edges,
                             AutoLayoutConfig(data.layout), NoOptions, NoDraws)
  IN  PosOf(l.nh, l.ah[l.arr])

\* C15: whatever the options, forceLayout returns new data laid out as the
\* private applyLayout lays it out, has invoked every subscribed callback
\* once with that data, and leaves no timeout pending; no timeout that was
\* pending when it was called computes a layout later.
C15_ForceLayoutBypasses ==
  /\ LastCall("forceLayout")
     => /\ ret.k = "data"
        /\ ret.ref > Len(pre.dh)
        /\ computed[Len(computed)].cause = "force"
        /\ computed[Len(computed)].out = ret.ref
        /\ call.algorithm # "organic" => PosOf(nodeHeap, ReturnedNodes) = SelectedLayout
        /\ RoundOf(Len(computed)) = FullRound(Len(computed))
        /\ computed[Len(computed)].listeners = listeners
        /\ timers = {}
        /\ debounceTimer = Null
  /\ \A i \in TimerRuns : computed[i].timer \notin hist.pendingAtForce

\* forceLayout was called on a disabled manager while a timeout was
\* pending, and has returned the diagram with a node moved.
C15_Witness ==
  /\ LastCall("forceLayout")
  /\ ~managerOptions.enabled
  /\ hist.pendingAtForce # {}
  /\ PosOf(nodeHeap, ReturnedNodes) # PosOf(pre.nh, pre.ah[pre.dh[call.data].nodes])

\* C16: in every round of notifications each callback subscribed at the
\* time is invoked once with the data of the round, whether or not a
\* callback throws; forceLayout still returns the data, and the timeout
\* callback still resets debounceTimer to null.
C16_ThrowingSubscriberIsolated ==
  /\ \A i \in 1..Len(computed) : RoundOf(i) = FullRound(i)
  /\ LastCall("forceLayout") => ret = [k |-> "data", ref |-> computed[Len(computed)].out]
  /\ LastCall("timeout") => debounceTimer = Null

\* A timeout callback notified a throwing callback first and another
\* callback after it.
C16_Witness ==
  \E i \in TimerRuns :
    /\ Len(computed[i].listeners) = 2
    /\ computed[i].listeners[1] \in ThrowingCallbacks
    /\ computed[i].listeners[2] \notin ThrowingCallbacks
    /\ LastCall("timeout")

----------------------------------------------------------------------------
(* getLineIntersection, under GeoSpec *)

\* Twice the signed area of the triangle a, b, c: 0 when c is on the line
\* through a and b, and of opposite signs for points on opposite sides of it.
Cross(a, b, c) == (b.x - a.x) * (c.y - a.y) - (b.y - a.y) * (c.x - a.x)

\* The two segments have directions that are not parallel (and neither is a
\* single point).
NotParallel(a, b, c, d) == (b.x - a.x) * (d.y - c.y) - (b.y - a.y) * (d.x - c.x) # 0

\* For segments that are not parallel: they have a common point exactly when
\* neither segment lies strictly on one side of the other's line.
SegmentsMeet(a, b, c, d) ==
  /\ Cross(a, b, c) * Cross(a, b, d) <= 0
  /\ Cross(c, d, a) * Cross(c, d, b) <= 0

\* The point p with fractional coordinates lies on the segment a-b.
OnSegment(p, a, b) ==
  /\ (b.x - a.x) * (p.y.n * p.x.d - a.y * p.y.d * p.x.d)
       = (b.y - a.y) * (p.x.n * p.y.d - a.x * p.x.d * p.y.d)
  /\ Min2(a.x, b.x) * p.x.d <= p.x.n /\ p.x.n <= Max2(a.x, b.x) * p.x.d
  /\ Min2(a.y, b.y) * p.y.d <= p.y.n /\ p.y.n <= Max2(a.y, b.y) * p.y.d

IsPoint(p, x, y) == p # Null /\ p.x.n = x * p.x.d /\ p.y.n = y * p.y.d

CrossingDiagonals ==
  /\ geo.line1Start = Pos(0, 0) /\ geo.line1End = Pos(10, 10)
  /\ geo.line2Start = Pos(0, 10) /\ geo.line2End = Pos(10, 0)

\* C21: getLineIntersection returns null when the determinant is zero
\* (parallel or degenerate segments) and when the two lines cross outside
\* either segment; otherwise it returns the crossing point, which lies on
\* both segments; (0,0)-(10,10) and (0,10)-(10,0) give (5,5).
C21_LineIntersection ==
  (pc = "done" /\ geo # Null)
  => LET a == geo.line1Start
         b == geo.line1End
         c == geo.line2Start
         d == geo.line2End
         r == geo.result
     IN  /\ ~NotParallel(a, b, c, d) => r = Null
         /\ (NotParallel(a, b, c, d) /\ ~SegmentsMeet(a, b, c, d)) => r = Null
         /\ (NotParallel(a, b, c, d) /\ SegmentsMeet(a, b, c, d))
              => r # Null /\ OnSegment(r, a, b) /\ OnSegment(r, c, d)
         /\ CrossingDiagonals => IsPoint(r, 5, 5)

C21_Witness ==
  /\ pc = "done"
  /\ geo # Null
  /\ CrossingDiagonals
  /\ IsPoint(geo.result, 5, 5)

----------------------------------------------------------------------------
(* Algorithm selection, under Spec (and AutoSpec for the timeout callback) *)

ClaimedAlgorithm(type) ==
  CASE type = "flowchart" -> "force"
    [] type = "org-chart" -> "tree"
    [] type = "mind-map" -> "organic"
    [] OTHER -> "force"

\* The positions one algorithm of the engine, with default options, gives
\* the diagram data as it was when the last call was made.
AlgorithmPositions(algorithm, data, draws) ==
  LET e == NewEngine(pre.ah, data.nodes, data.edges,
                     [NoOptions EXCEPT !.algorithm = algorithm])
  IN  LayoutPositions(
        CASE algorithm = "force" -> forceDirectedLayout(pre.nh, e.ah, e.engine)
          [] algorithm = "tree" -> treeLayout(pre.nh, e.ah, e.engine)
          [] algorithm = "organic" -> organicLayout(pre.nh, e.ah, e.engine, draws))

\* The nodes of the data the last run of the private applyLayout produced.
LastRunNodes == arrHeap[dataHeap[computed[Len(computed)].out].nodes]

LaidOutAsClaimed(positions, data) ==
  \E draws \in DrawsFor(ClaimedAlgorithm(data.layout.type)) :
    positions = AlgorithmPositions(ClaimedAlgorithm(data.layout.type), data, draws)

\* C22: applyCustomLayout without an algorithm option, forceLayout and the
\* timeout callback of triggerAutoLayout position the nodes as the
\* force-directed algorithm does for type 'flowchart', the tree algorithm for
\* 'org-chart', the organic algorithm for 'mind-map', and the force-directed
\* algorithm for every other type.
C22_AlgorithmByType ==
  /\ (pc = "done" /\ LastCall("applyCustomLayout") /\ call.options = NoOptions)
     => LaidOutAsClaimed(PosOf(nodeHeap, ReturnedNodes), pre.dh[call.data])
  /\ (LastCall("forceLayout") \/ LastCall("timeout"))
     => LaidOutAsClaimed(PosOf(nodeHeap, LastRunNodes), pre.dh[call.data])

\* applyCustomLayout, given a three-node diagram of type 'tree' and no
\* option, has returned positions that are not those of the tree algorithm.
C22_Witness ==
  /\ pc = "done"
  /\ LastCall("applyCustomLayout")
  /\ call.options = NoOptions
  /\ pre.dh[call.data].layout.type = "tree"
  /\ Len(InputNodes) = 3
  /\ InputEdges = <<Edge("e1", "A", "B"), Edge("e2", "A", "C")>>
  /\ PosOf(nodeHeap, ReturnedNodes)
       # AlgorithmPositions("tree", pre.dh[call.data], NoDraws)

\* C23: whenever LayoutManager.autoLayout returns data, the nodes are where
\* the force-directed algorithm with default options puts them, whatever the
\* type of the diagram.
C23_AutoLayoutIsForceDirected ==
  (pc = "done" /\ LastCall("autoLayout") /\ ret.k = "data")
  => PosOf(nodeHeap, ReturnedNodes) = AlgorithmPositions("force", pre.dh[call.data], NoDraws)

----------------------------------------------------------------------------
(* useUndoRedo, under UndoSpec *)

\* C24: the list of past states never holds more than maxHistorySize
\* entries, whatever recordChange, undo, redo and reset calls were made.
C24_HistoryDepthBounded ==
  undoRedo # Null => Len(undoRedo.history.past) <= undoRedo.maxHistorySize

\* C30: once the updates of a recordChange(d) call are processed, d is the
\* present state, the state that was present before the call is the last
\* entry of past, and future is empty; undo with an empty past and redo with
\* an empty future leave the history as it was.
C30_RecordChangeAlwaysRecords ==
  (undoRedo # Null /\ undoRedo.last # Null)
  => LET last == undoRedo.last
     IN  /\ last.op = "recordChange"
            => Settled(undoRedo) = HistoryState(Append(last.before.past, last.before.present),
                                                last.data, <<>>)
         /\ (last.op = "undo" /\ last.before.past = <<>>) => Settled(undoRedo) = last.before
         /\ (last.op = "redo" /\ last.before.future = <<>>) => Settled(undoRedo) = last.before

----------------------------------------------------------------------------
(* Tree layout geometry, under TreeSpec *)

\* A queue entry by the id of its node.
EntryById(e) == [id |-> nodeHeap[e.node].id, x |-> e.x, y |-> e.y]

\* The targets of the edges that leave id, in edge order.
ListedChildren(id) ==
  LET out == SelectSeq(tree.edges, LAMBDA edge : edge.source = id)
  IN  [j \in 1..Len(out) |-> out[j].target]

\* The entries the claim expects for the children of a node placed at (x, y),
\* the ids in `visited` being visited.
ClaimedChildEntries(id, x, y, visited) ==
  LET kids == ListedChildren(id)
      k == Len(kids)
      all == [j \in 1..k |-> [id |-> kids[j],
                              x |-> x - ((k - 1) * 150) \div 2 + (j - 1) * 150,
                              y |-> y + 100]]
  IN  SelectSeq(all, LAMBDA e : /\ e.id \in IdSet(nodeHeap, tree.arr)
                                /\ e.id \notin visited)

\* The first entry ever queued for node n.
EarliestEntry(n) ==
  tree.queued[CHOOSE i \in 1..Len(tree.queued) :
                /\ tree.queued[i].node = n
                /\ \A j \in 1..(i - 1) : tree.queued[j].node # n]

\* C25: the queue starts with root i of r roots (i from 0) at
\* (centerX + (i - r/2) * 200, centerY - 200); a visit of a node placed at
\* (x, y) with k listed children pushes, for each child j (from 0) that is a
\* node and not visited, the entry (x - (k-1)*150/2 + j*150, y + 100); and a
\* positioned node is where its earliest queue entry says.
C25_TreeGeometry ==
  InTree
  => /\ \A i \in 1..Len(tree.roots) :
          tree.queued[i] = [node |-> tree.roots[i],
                            x |-> tree.options.centerX
                                    + ((2 * (i - 1) - Len(tree.roots)) * 200) \div 2,
                            y |-> tree.options.centerY - 200]
     /\ tree.step = "visit"
        => LET n == tree.written[Len(tree.written)]
           IN  [j \in 1..Len(tree.pushed) |-> EntryById(tree.pushed[j])]
                 = ClaimedChildEntries(nodeHeap[n].id, nodeHeap[n].x, nodeHeap[n].y,
                                       tree.visited)
     /\ \A i \in 1..Len(tree.written) :
          LET n == tree.written[i]
          IN  /\ nodeHeap[n].x = EarliestEntry(n).x
              /\ nodeHeap[n].y = EarliestEntry(n).y

\* A tree layout with two roots has returned; their common child was queued
\* twice and stands 100 below the first root.
C25_Witness ==
  /\ pc = "done"
  /\ tree # Null
  /\ Len(tree.roots) = 2
  /\ tree.skipped > 0
  /\ Len(tree.written) = 3
  /\ nodeHeap[tree.written[3]].x = nodeHeap[tree.roots[1]].x
  /\ nodeHeap[tree.written[3]].y = nodeHeap[tree.roots[1]].y + 100

----------------------------------------------------------------------------
(* The center of the grid, under GridSpec *)

\* The call gave centerX and centerY: every choice of GridOptionChoices but
\* {algorithm: 'grid'}.
CenterConfigured == call.options # [NoOptions EXCEPT !.algorithm = "grid"]

\* C26: a grid layout of n >= 1 nodes called with (centerX, centerY), zero
\* and negative values included, has its first column at
\* centerX - (c-1)*150/2 and its first row at centerY - (r-1)*100/2, c and r
\* being the numbers of columns and rows.
C26_GridCenteredOnConfigured ==
  (/\ pc = "done"
   /\ call.algorithm = "grid"
   /\ Len(ReturnedNodes) >= 1
   /\ CenterConfigured)
  => LET n == Len(ReturnedNodes)
         c == LeastSide(n)
         r == LeastRows(n, c)
         at == PosOf(nodeHeap, ReturnedNodes)
     IN  /\ at[1].x = call.options.centerX - ((c - 1) * 150) \div 2
         /\ at[1].y = call.options.centerY - ((r - 1) * 100) \div 2

----------------------------------------------------------------------------
(* The safety bound of the force-directed layout, under ForceSpec *)

InSafetyBound(nh, arr) ==
  \A i \in 1..Len(arr) :
    /\ -1000 <= nh[arr[i]].x /\ nh[arr[i]].x <= 2000
    /\ -1000 <= nh[arr[i]].y /\ nh[arr[i]].y <= 2000

ForceOrOrganic == pc = "done" /\ call.algorithm \in {"force", "organic"}

\* C27 as stated: after a force-directed or organic layout every coordinate
\* is in [-1000, 2000], whatever the positions and the options were.
C27_AlwaysInSafetyBound ==
  ForceOrOrganic => InSafetyBound(nodeHeap, ReturnedNodes)

\* C27, amended: after an organic layout, and after a force-directed layout
\* whose iterations option is not negative (0 or absent means 100), every
\* coordinate is in [-1000, 2000], whatever the positions and the other
\* options were.
C27_InSafetyBoundAfterAPass ==
  (ForceOrOrganic /\ (call.algorithm = "force" => call.options.iterations >= 0))
  => InSafetyBound(nodeHeap, ReturnedNodes)

\* A force-directed layout of one pass, with attraction 2 and damping 1.5,
\* has returned nodes that started outside the bound.
C27_Witness ==
  /\ ForceOrOrganic
  /\ call.algorithm = "force"
  /\ call.options.iterations = 1
  /\ call.options.attraction1000 = 2000
  /\ call.options.damping100 = 150
  /\ Len(InputNodes) = 3
  /\ ~InSafetyBound(pre.nh, InputNodes)
  /\ InSafetyBound(nodeHeap, ReturnedNodes)

----------------------------------------------------------------------------
(* Rejected triggers, under AutoSpec *)

\* The step is a triggerAutoLayout call that shouldTrigger rejects.
RejectedTrigger ==
  /\ hist'.calls = hist.calls + 1
  /\ call'.op = "triggerAutoLayout"
  /\ ~call'.accepted

\* The timeout that was pending at a rejected trigger is the one set by the
\* last accepted trigger, with that trigger's data and deadline; while it is
\* pending it is unchanged, and if it ran it ran with that data, not before
\* that deadline.
TurnedAwayKeepsTimer ==
  \A r \in hist.turnedAway :
    /\ r.timer.data = r.started.data
    /\ r.timer.due = r.started.at + r.started.debounceMs
    /\ \A t \in timers : t.id = r.timer.id => t = r.timer
    /\ \A i \in TimerRuns :
         computed[i].timer = r.timer.id
         => /\ computed[i].data = r.timer.data
            /\ computed[i].at >= r.timer.due

\* C28: a triggerAutoLayout call rejected by shouldTrigger changes nothing
\* of the manager: the pending timeout, debounceTimer, the listeners and the
\* options are as before, nothing is computed and nobody is notified; the
\* timeout keeps its deadline and runs with the data of the trigger that set
\* it.
C28_RejectedTriggerChangesNothing ==
  /\ []TurnedAwayKeepsTimer
  /\ [][RejectedTrigger
        => UNCHANGED <<debounceTimer, timers, listeners, managerOptions, notified,
                       computed, nodeHeap, arrHeap, dataHeap, now>>]_vars

\* A timeout ran at its deadline although a trigger with other data had been
\* rejected after the clock had advanced.
C28_Witness ==
  \E r \in hist.turnedAway :
    /\ r.at > r.started.at
    /\ r.data # r.timer.data
    /\ \E i \in TimerRuns :
         /\ computed[i].timer = r.timer.id
         /\ computed[i].at = r.timer.due

----------------------------------------------------------------------------
(* Notification rounds, under NotifySpec *)

\* How often callback occurs in a sequence of callbacks.
Occurrences(callback, ls) ==
  Cardinality({ k \in 1..Len(ls) : ls[k] = callback })

\* The callbacks invoked in the round of run i, in order.
InvokedIn(i) == [k \in 1..Len(RoundOf(i)) |-> RoundOf(i)[k].callback]

\* C29: in every round each callback is invoked once for each of its
\* subscriptions at the start of the round, whatever unsubscribe functions
\* the callbacks call during the round; and a callback whose unsubscribe
\* function has run, and that was not subscribed again, is invoked in no
\* later round.
C29_RoundReachesEverySubscriber ==
  \A i \in 1..Len(computed) :
    /\ \A callback \in NotifyCallbacks :
         Occurrences(callback, InvokedIn(i)) = Occurrences(callback, computed[i].listeners)
    /\ \A k \in 1..Len(InvokedIn(i)) : InvokedIn(i)[k] \notin computed[i].unsubscribed

====
